---- MODULE Spec2Model ----
(***************************************************************************)
(* Model of the tubearchivist ingestion and refresh core:                  *)
(*   home/src/download/queue.py   PendingIndex, PendingList                *)
(*   home/src/index/reindex.py    ReindexOutdated, ReindexManual, Reindex, *)
(*                                ReindexProgress                          *)
(*   home/src/index/comments.py   Comments                                 *)
(* Every component has a specification of its own over the shared state:   *)
(*   SpecResolve      two concurrent resolution passes over ta_download    *)
(*   SpecQuota        _get_daily_should over counts and intervals          *)
(*   SpecSched        one add_outdated pass                                *)
(*   SpecEnqueue      add_outdated passes and extract_data calls           *)
(*   SpecComments     reindex_comments calls                               *)
(*   SpecRefresh      one reindex_all cycle of one worker                  *)
(*   SpecRefreshLive  the same cycle with a worker that keeps going        *)
(*   SpecWorkers      two workers over the same queues                     *)
(*   SpecProgress     get_progress calls beside a worker                   *)
(*   SpecCrash        the cycle with a worker that may die in a refresh    *)
(*   SpecPlaylists    a cycle over two playlists and an index with or      *)
(*                    without videos                                       *)
(***************************************************************************)
EXTENDS Integers, Sequences, FiniteSets, TLC

(***************************************************************************)
(* Bounds of the model.                                                    *)
(***************************************************************************)
NumVideos == 3

\* Documents of ta_video in the scheduler's runs.
MaxIndexed == 7

\* Largest re-check interval, in days.
MaxDays == 7

\* Largest count of active documents tried on _get_daily_should, beside
\* SampleHits.
MaxHits == 40

\* Most comments a pull returns.
MaxComments == 2

VideoIds == 1..NumVideos

\* The two PendingList objects whose passes run concurrently.
Passes == {"a", "b"}

\* The Reindex objects whose reindex_all calls run concurrently.
Workers == {"w1", "w2"}

VARIABLES
    ta_download,     \* documents of index ta_download (the pending queue)
    ta_video,        \* documents of index ta_video, a function _id -> document
    ta_playlist,     \* documents of index ta_playlist, a function _id -> document
    pc,              \* per pass: position of the PendingList caller
    youtube_ids,     \* per pass: PendingList.youtube_ids
    to_skip,         \* per pass: PendingIndex.to_skip
    missing_videos,  \* per pass: PendingList.missing_videos
    bulk_list,       \* per pass: the actions of the _bulk request
    bulk_pos,        \* per pass: number of bulk actions the store has applied
    snap_queued,     \* per pass: ids in ta_download when get_download read it
    snap_indexed,    \* per pass: ids in ta_video when get_indexed read it
    ta_channel,      \* documents of index ta_channel, a function _id -> document
    queue,           \* the redis lists, a function queue_name -> list of ids
    interval,        \* config["scheduler"]["check_reindex_days"]
    now,             \* ReindexBase.now
    sched_type,      \* add_outdated: position in REINDEX_CONFIG.values()
    sched_step,      \* add_outdated: the call the loop body is at
    total_hits,      \* add_outdated: the result of _get_total_hits
    daily_should,    \* add_outdated: the result of _get_daily_should
    populated,       \* per type: the ids the pass handed to populate
    ta_comment,      \* documents of index ta_comment, a function _id -> document
    comment_max,     \* config["downloads"]["comment_max"] is set
    comments_format, \* Comments.comments_format of the last Comments object
    comments_call,   \* how the last reindex_comments call ended
    last_reindex,    \* the redis message last_reindex: <<>> or <<timestamp>>
    cookie_import,   \* config["downloads"]["cookie_import"]
    cookie_valid,    \* what CookieHandler(config).validate() answers
    media_exists,    \* the videos whose media file is where the record says
    thumbs,          \* the cached thumbnail of each video
    ta_subtitle,     \* the subtitles kept (files and documents) of each video
    worker_pc,       \* per worker: position in Reindex.reindex_all
    worker_type,     \* per worker: position in REINDEX_CONFIG.values()
    all_indexed_ids, \* per worker: Reindex.all_indexed_ids
    last,            \* the last refresh: entity, outcome, record before, writes
    received,        \* the ids get_next() has handed out, and to which worker
    message_add,     \* per pass: the counter of the last _notify_add message
    extracted,       \* per pass: what extract() answered for each missing id
    messages,        \* per pass: the message:add messages set, in order
    request_type,    \* ReindexProgress.request_type
    request_id,      \* ReindexProgress.request_id
    progress_pc,     \* ReindexProgress.get_progress: the call it is at
    total,           \* get_progress: the result of _get_total_in_queue
    progress,        \* get_progress: what the call returned
    manual_data,     \* ReindexManual.data, the items() of the map in order
    extract_videos,  \* ReindexManual.extract_videos
    manual_pos,      \* extract_data: the items of data gone through
    manual_pc        \* extract_data: running, returned or raised

storeVars == <<ta_download, ta_video, ta_channel, ta_playlist>>

passVars == <<pc, youtube_ids, to_skip, missing_videos, bulk_list, bulk_pos,
              snap_queued, snap_indexed, message_add, extracted, messages>>

progressVars == <<request_type, request_id, progress_pc, total, progress>>

manualVars == <<manual_data, extract_videos, manual_pos, manual_pc>>

redisVars == <<queue, last_reindex>>

configVars == <<interval, now, cookie_import, cookie_valid>>

schedVars == <<sched_type, sched_step, total_hits, daily_should, populated>>

commentVars == <<ta_comment, comment_max, comments_format, comments_call>>

workerVars == <<media_exists, thumbs, ta_subtitle, worker_pc, worker_type,
               all_indexed_ids,
                last, received>>

vars == <<storeVars, passVars, redisVars, configVars, schedVars, commentVars,
          workerVars, progressVars, manualVars>>

(***************************************************************************)
(* Sequence helpers.                                                       *)
(***************************************************************************)
Range(s) == {s[i] : i \in 1..Len(s)}

\* No element is in the list twice.
NoDuplicates(list) ==
    \A i, j \in 1..Len(list) : list[i] = list[j] => i = j

InList(x, s) == \E i \in 1..Len(s) : s[i] = x

RECURSIVE SetToSeq(_)
\* The elements of a finite set of integers, ascending.
SetToSeq(S) ==
    IF S = {} THEN <<>>
    ELSE LET m == CHOOSE x \in S : \A y \in S : x <= y
         IN <<m>> \o SetToSeq(S \ {m})

RECURSIVE Descending(_)
Descending(S) ==
    IF S = {} THEN <<>>
    ELSE LET m == CHOOSE x \in S : \A y \in S : x >= y
         IN <<m>> \o Descending(S \ {m})

(***************************************************************************)
(* The document store, as far as the pending index uses it.  A document of *)
(* ta_download carries its _id, its youtube_id and status fields and, for  *)
(* the properties, the pass that created it ("init": there before).        *)
(***************************************************************************)
DownloadDoc(id, status, by) ==
    [_id |-> id, youtube_id |-> id, status |-> status, by |-> by]

\* One action of a _bulk request applied by the store.  "create" fails for
\* that item alone when the _id exists; "index" replaces the document.
BulkApply(index, action, doc) ==
    IF action.op = "create"
    THEN IF \E d \in index : d._id = action._id
         THEN index
         ELSE index \cup {doc}
    ELSE {d \in index : d._id # action._id} \cup {doc}

\* IndexPaginate("ta_download", match_all).get_results()
DownloadResults == ta_download

\* IndexPaginate("ta_video", match_all).get_results()
VideoResults == DOMAIN ta_video

(***************************************************************************)
(* External lookups of a resolution pass: the members of a channel and of  *)
(* a playlist, in the order the extractor returns them.                    *)
(***************************************************************************)
\* Channel and playlist ids are numbered apart from the video ids.
ChannelIds == {1}

PlaylistIds == {1}

\* ChannelSubscription().get_last_youtube_videos(url, limit=False)
ChannelLookup(url) == SetToSeq(VideoIds)

\* YoutubePlaylist(url).build_json(); json_data["playlist_entries"]
PlaylistLookup(url) == Descending(VideoIds \ {1})

Entry(type, url) == [type |-> type, url |-> url]

\* The url lists a caller hands to PendingList(youtube_ids=...).
UrlLists ==
    { <<Entry("video", 1)>>,
      <<Entry("channel", 1)>>,
      <<Entry("video", 2), Entry("playlist", 1)>>,
      <<Entry("video", 1), Entry("video", 1), Entry("video", NumVideos)>>,
      <<Entry("video", NumVideos), Entry("search", 0), Entry("video", 1)>> }

(***************************************************************************)
(* PendingIndex.get_download and get_indexed: the ids to skip.             *)
(***************************************************************************)
\* to_skip after get_download: the youtube_id of every result, whatever
\* its status.
GetDownloadSkipPendingOnly(results) ==
    SetToSeq({d.youtube_id : d \in {r \in results : r.status = "pending"}})

GetDownloadSkip(results) == SetToSeq({d.youtube_id : d \in results})

\* to_skip after get_indexed: the indexed ids appended.
GetIndexedSkipNone(skip, videos) == skip

GetIndexedSkip(skip, videos) == skip \o SetToSeq(videos)

(***************************************************************************)
(* PendingList._add_video, _parse_channel, _parse_playlist, _process_entry *)
(* and the loop of parse_url_list, on the pass's missing_videos.           *)
(***************************************************************************)
\* _add_video without the test on missing_videos.
AddVideoUnlessSkipped(missing, skip, url) ==
    IF ~InList(url, skip) THEN Append(missing, url) ELSE missing

_add_video(missing, skip, url) ==
    IF ~InList(url, missing) /\ ~InList(url, skip)
    THEN Append(missing, url)
    ELSE missing

RECURSIVE AddVideos(_, _, _)
AddVideos(missing, skip, ids) ==
    IF ids = <<>> THEN missing
    ELSE AddVideos(_add_video(missing, skip, Head(ids)), skip, Tail(ids))

_parse_channel(missing, skip, url) == AddVideos(missing, skip, ChannelLookup(url))

_parse_playlist(missing, skip, url) == AddVideos(missing, skip, PlaylistLookup(url))

ValidType(entry) == entry.type \in {"video", "channel", "playlist"}

_process_entry(missing, skip, entry) ==
    CASE entry.type = "video" -> _add_video(missing, skip, entry.url)
      [] entry.type = "channel" -> _parse_channel(missing, skip, entry.url)
      [] entry.type = "playlist" -> _parse_playlist(missing, skip, entry.url)
      [] OTHER -> missing

RECURSIVE ProcessEntries(_, _, _)
\* The loop over youtube_ids; it ends at the first entry that raises.
ProcessEntries(missing, skip, entries) ==
    IF entries = <<>> THEN [missing |-> missing, raised |-> FALSE]
    ELSE IF ~ValidType(Head(entries)) THEN [missing |-> missing, raised |-> TRUE]
    ELSE ProcessEntries(_process_entry(missing, skip, Head(entries)), skip,
                        Tail(entries))

RECURSIVE PlaylistsOf(_)
\* The playlist entries processed before the loop ends.
PlaylistsOf(entries) ==
    IF entries = <<>> \/ ~ValidType(Head(entries)) THEN {}
    ELSE (IF Head(entries).type = "playlist" THEN {Head(entries).url} ELSE {})
         \cup PlaylistsOf(Tail(entries))

RECURSIVE ReachedIds(_)
\* The ids _add_video is called with in a pass over entries.
ReachedIds(entries) ==
    IF entries = <<>> \/ ~ValidType(Head(entries)) THEN {}
    ELSE (CASE Head(entries).type = "video" -> {Head(entries).url}
            [] Head(entries).type = "channel" -> Range(ChannelLookup(Head(entries).url))
            [] OTHER -> Range(PlaylistLookup(Head(entries).url)))
         \cup ReachedIds(Tail(entries))

\* PlaylistSubscription().process_url_str([entry], subscribed=False)
PlaylistDoc(subscribed) == [playlist_subscribed |-> subscribed, playlist_active |-> TRUE]

TrackPlaylists(index, urls) ==
    [p \in DOMAIN index \cup urls |->
        IF p \in DOMAIN index THEN index[p] ELSE PlaylistDoc(FALSE)]

(***************************************************************************)
(* PendingList.add_to_pending: the bulk request built from the accepted    *)
(* ids of missing_videos.                                                  *)
(***************************************************************************)
BulkActionIndex(youtube_id) ==
    [op |-> "index", _id |-> youtube_id, _index |-> "ta_download"]

BulkAction(youtube_id) ==
    [op |-> "create", _id |-> youtube_id, _index |-> "ta_download"]

RECURSIVE BuildBulk(_, _, _, _)
\* accepted: the ids get_youtube_details returns details for.
BuildBulk(missing, accepted, status, by) ==
    IF missing = <<>> THEN <<>>
    ELSE (IF Head(missing) \in accepted
          THEN <<[action |-> BulkAction(Head(missing)),
                  doc |-> DownloadDoc(Head(missing), status, by)]>>
          ELSE <<>>)
         \o BuildBulk(Tail(missing), accepted, status, by)

(***************************************************************************)
(* Actions of a resolution pass.                                           *)
(***************************************************************************)
\* parse_url_list, lines 142-143: missing_videos = [], get_download().
GetDownload(p) ==
    /\ pc[p] = "idle"
    /\ \E entries \in UrlLists :
          youtube_ids' = [youtube_ids EXCEPT ![p] = entries]
    /\ missing_videos' = [missing_videos EXCEPT ![p] = <<>>]
    /\ to_skip' = [to_skip EXCEPT ![p] = GetDownloadSkip(DownloadResults)]
    /\ snap_queued' = [snap_queued EXCEPT ![p] =
                          {d.youtube_id : d \in {r \in ta_download :
                              r.status \in {"pending", "ignore"}}}]
    /\ pc' = [pc EXCEPT ![p] = "snapshot"]
    /\ UNCHANGED <<storeVars, bulk_list, bulk_pos, snap_indexed,
                   message_add, extracted, messages>>
    /\ UNCHANGED <<redisVars, configVars, schedVars, commentVars, workerVars>>
    /\ UNCHANGED <<progressVars, manualVars>>

\* parse_url_list, lines 144-154: get_indexed(), then every entry.
ParseUrlList(p) ==
    /\ pc[p] = "snapshot"
    /\ LET skip == GetIndexedSkip(to_skip[p], VideoResults)
           res == ProcessEntries(missing_videos[p], skip, youtube_ids[p])
       IN /\ to_skip' = [to_skip EXCEPT ![p] = skip]
          /\ missing_videos' = [missing_videos EXCEPT ![p] = res.missing]
          /\ pc' = [pc EXCEPT ![p] = IF res.raised THEN "raised" ELSE "parsed"]
    /\ snap_indexed' = [snap_indexed EXCEPT ![p] = DOMAIN ta_video]
    /\ ta_playlist' = TrackPlaylists(ta_playlist, PlaylistsOf(youtube_ids[p]))
    /\ UNCHANGED <<ta_download, ta_video, ta_channel, youtube_ids, bulk_list,
                   bulk_pos, snap_queued,
                   message_add, extracted, messages>>
    /\ UNCHANGED <<redisVars, configVars, schedVars, commentVars, workerVars>>
    /\ UNCHANGED <<progressVars, manualVars>>

\* _notify_add with the counter short by one.
NotifyAddFromZero(idx, missing) == <<idx, Len(missing)>>

\* _notify_add: the counter of the progress message, "idx + 1/len".
_notify_add(idx, missing) == <<idx + 1, Len(missing)>>

RECURSIVE LastNotify(_, _, _)
\* The message the loop of add_to_pending leaves: that of the last id, up
\* to place n of missing_videos, that get_youtube_details has accepted.
LastNotify(missing, accepted, n) ==
    IF n = 0 THEN <<>>
    ELSE IF missing[n] \in accepted THEN _notify_add(n - 1, missing)
    ELSE LastNotify(missing, accepted, n - 1)

\* _notify_add, lines 229-232: the expire handed to set_message.
NotifyExpire(idx, missing) ==
    IF idx + 1 = Len(missing) THEN "4" ELSE "True"

RECURSIVE Notified(_, _, _)
\* The messages the loop of add_to_pending sets up to place n of
\* missing_videos: one for each id get_youtube_details has accepted, made
\* by _notify_add(idx) with idx the place of the id in the list.
Notified(missing, accepted, n) ==
    IF n = 0 THEN <<>>
    ELSE Notified(missing, accepted, n - 1)
         \o (IF missing[n] \in accepted
             THEN <<[progress |-> _notify_add(n - 1, missing),
                     expire |-> NotifyExpire(n - 1, missing)]>>
             ELSE <<>>)

\* YtWrap(yt_obs, config).extract(youtube_id): nothing, or the dict of a
\* video.
NoVid == [ok |-> FALSE]

Vid(id, live_status) ==
    [ok |-> TRUE, id |-> id, live_status |-> live_status,
     thumbnail |-> "thumbnail"]

\* What the extractor may answer for an id: the video, or nothing, the
\* video of another id, or a broadcast that is upcoming or live.
Extracts(youtube_id) ==
    {Vid(youtube_id, "not_live")}
    \cup (CASE youtube_id % 3 = 1 -> {NoVid}
            [] youtube_id % 3 = 2 -> {Vid(0, "not_live")}
            [] OTHER -> {Vid(youtube_id, "is_upcoming"),
                         Vid(youtube_id, "is_live")})

\* _parse_youtube_details: the document built of the dict.
_parse_youtube_details(vid) ==
    [ok |-> TRUE, youtube_id |-> vid.id, vid_thumb_url |-> vid.thumbnail]

\* get_youtube_details that lets a broadcast pass.
GetYoutubeDetailsOfBroadcasts(vid, youtube_id) ==
    IF ~vid.ok THEN [ok |-> FALSE]
    ELSE IF vid.id # youtube_id THEN [ok |-> FALSE]
    ELSE _parse_youtube_details(vid)

\* get_youtube_details: False, or the details of the video.
get_youtube_details(vid, youtube_id) ==
    IF ~vid.ok THEN [ok |-> FALSE]
    ELSE IF vid.id # youtube_id THEN [ok |-> FALSE]
    ELSE IF vid.live_status \in {"is_upcoming", "is_live"} THEN [ok |-> FALSE]
    ELSE _parse_youtube_details(vid)

\* The ids of missing for which get_youtube_details returns details.
Accepted(missing, vids) ==
    {i \in Range(missing) : get_youtube_details(vids[i], i).ok}

\* ThumbManager(youtube_id).download_video_thumb(url) for every accepted id.
CacheThumbs(cached, accepted, vids) ==
    [i \in DOMAIN cached \cup accepted |->
        IF i \in accepted THEN get_youtube_details(vids[i], i).vid_thumb_url
        ELSE cached[i]]

\* add_to_pending, lines 195-217: the loop that builds the bulk request.
AddToPending(p) ==
    /\ pc[p] = "parsed"
    /\ \E vids \in [Range(missing_videos[p]) ->
                        UNION {Extracts(i) : i \in Range(missing_videos[p])}] :
          /\ \A i \in DOMAIN vids : vids[i] \in Extracts(i)
          /\ LET accepted == Accepted(missing_videos[p], vids)
                 bulk == BuildBulk(missing_videos[p], accepted, "pending", p)
             IN /\ extracted' = [extracted EXCEPT ![p] = vids]
                /\ bulk_list' = [bulk_list EXCEPT ![p] = bulk]
                /\ thumbs' = CacheThumbs(thumbs, accepted, vids)
                /\ messages' = [messages EXCEPT ![p] =
                       Notified(missing_videos[p], accepted,
                                Len(missing_videos[p]))]
                /\ message_add' = [message_add EXCEPT ![p] =
                       LastNotify(missing_videos[p], accepted,
                                  Len(missing_videos[p]))]
                /\ pc' = [pc EXCEPT ![p] =
                             IF bulk = <<>> THEN "done" ELSE "posting"]
    /\ bulk_pos' = [bulk_pos EXCEPT ![p] = 0]
    /\ UNCHANGED <<storeVars, youtube_ids, to_skip, missing_videos, snap_queued,
                   snap_indexed>>
    /\ UNCHANGED <<media_exists, ta_subtitle, worker_pc, worker_type,
                   all_indexed_ids, last,
                   received>>
    /\ UNCHANGED <<redisVars, configVars, schedVars, commentVars>>
    /\ UNCHANGED <<progressVars, manualVars>>

\* add_to_pending, line 218: the store applies the request one action at a
\* time; the request is not atomic across its actions.
BulkPost(p) ==
    /\ pc[p] = "posting"
    /\ LET item == bulk_list[p][bulk_pos[p] + 1]
       IN ta_download' = BulkApply(ta_download, item.action, item.doc)
    /\ bulk_pos' = [bulk_pos EXCEPT ![p] = @ + 1]
    /\ pc' = [pc EXCEPT ![p] =
                 IF bulk_pos[p] + 1 = Len(bulk_list[p]) THEN "done" ELSE "posting"]
    /\ UNCHANGED <<ta_video, ta_channel, ta_playlist, youtube_ids, to_skip,
                   missing_videos, bulk_list, snap_queued, snap_indexed,
                   message_add, extracted, messages>>
    /\ UNCHANGED <<redisVars, configVars, schedVars, commentVars, workerVars>>
    /\ UNCHANGED <<progressVars, manualVars>>

(***************************************************************************)
(* ReindexBase: REINDEX_CONFIG, MULTIPLY and populate.                      *)
(***************************************************************************)
\* The keys of REINDEX_CONFIG, in the order of its values().
Types == <<"video", "channel", "playlist">>

REINDEX_CONFIG(type) ==
    CASE type = "video" ->
           [index_name |-> "ta_video", queue_name |-> "reindex:ta_video",
            active_key |-> "active", refresh_key |-> "vid_last_refresh"]
      [] type = "channel" ->
           [index_name |-> "ta_channel", queue_name |-> "reindex:ta_channel",
            active_key |-> "channel_active",
            refresh_key |-> "channel_last_refresh"]
      [] type = "playlist" ->
           [index_name |-> "ta_playlist", queue_name |-> "reindex:ta_playlist",
            active_key |-> "playlist_active",
            refresh_key |-> "playlist_last_refresh"]

\* MULTIPLY = 1.2, as the fraction 12/10: for every integer k below two
\* million int(k * 1.2) in double arithmetic is (k * 12) \div 10.
MultiplyNum == 12

MultiplyDen == 10

DaySeconds == 24 * 60 * 60

\* The documents of an index, by its name.
Index(index_name) ==
    CASE index_name = "ta_video" -> ta_video
      [] index_name = "ta_channel" -> ta_channel
      [] index_name = "ta_playlist" -> ta_playlist

\* A match query on one field: a document without the field does not match.
Match(doc, field, value) == field \in DOMAIN doc /\ doc[field] = value

\* RedisQueue(queue_name).add_list(to_add): an idempotent push, in order.
RECURSIVE AddList(_, _)
AddList(list, to_add) ==
    IF to_add = <<>> THEN list
    ELSE AddList(IF InList(Head(to_add), list) THEN list
                 ELSE Append(list, Head(to_add)),
                 Tail(to_add))

populate(q, all_ids, reindex_config) ==
    IF all_ids = <<>> THEN q
    ELSE [q EXCEPT ![reindex_config.queue_name] = AddList(@, all_ids)]

(***************************************************************************)
(* ReindexOutdated: _get_total_hits, _get_daily_should, _get_outdated_ids. *)
(***************************************************************************)
_get_total_hits(reindex_config) ==
    LET index == Index(reindex_config.index_name)
    IN Cardinality({i \in DOMAIN index :
                       Match(index[i], reindex_config.active_key, TRUE)})

DailyShouldNoRoundUp(hits, days) ==
    LET daily == ((hits \div days) * MultiplyNum) \div MultiplyDen
    IN IF daily >= 10000 THEN 9999 ELSE daily

_get_daily_should(hits, days) ==
    LET daily == ((hits \div days + 1) * MultiplyNum) \div MultiplyDen
    IN IF daily >= 10000 THEN 9999 ELSE daily

RECURSIVE SortAsc(_, _, _)
\* The ids of a set of hits sorted by a field ascending, equal values in
\* the order of their ids.
SortAsc(ids, index, key) ==
    IF ids = {} THEN <<>>
    ELSE LET m == CHOOSE x \in ids : \A y \in ids :
                      \/ index[x][key] < index[y][key]
                      \/ index[x][key] = index[y][key] /\ x <= y
         IN <<m>> \o SortAsc(ids \ {m}, index, key)

\* The first size elements of a list.
Take(list, size) == SubSeq(list, 1, IF size < Len(list) THEN size ELSE Len(list))

OutdatedIdsUnsorted(reindex_config, size) ==
    LET index == Index(reindex_config.index_name)
        refresh_key == reindex_config.refresh_key
        now_lte == now - interval * DaySeconds
        hits == {i \in DOMAIN index :
                    /\ Match(index[i], "active", TRUE)
                    /\ refresh_key \in DOMAIN index[i]
                    /\ index[i][refresh_key] <= now_lte}
    IN Take(SetToSeq(hits), size)

_get_outdated_ids(reindex_config, size) ==
    LET index == Index(reindex_config.index_name)
        refresh_key == reindex_config.refresh_key
        now_lte == now - interval * DaySeconds
        hits == {i \in DOMAIN index :
                    /\ Match(index[i], "active", TRUE)
                    /\ refresh_key \in DOMAIN index[i]
                    /\ index[i][refresh_key] <= now_lte}
    IN Take(SortAsc(hits, index, refresh_key), size)

(***************************************************************************)
(* Actions of ReindexOutdated.add_outdated: the three calls of the loop    *)
(* body, for each type in turn.                                            *)
(***************************************************************************)
\* add_outdated, line 73.
GetTotalHits ==
    /\ sched_step = "hits"
    /\ total_hits' = _get_total_hits(REINDEX_CONFIG(Types[sched_type]))
    /\ sched_step' = "should"
    /\ UNCHANGED <<sched_type, daily_should, populated>>
    /\ UNCHANGED <<storeVars, passVars, redisVars, configVars, commentVars,
                   workerVars>>
    /\ UNCHANGED <<progressVars, manualVars>>

\* add_outdated, line 74.
GetDailyShould ==
    /\ sched_step = "should"
    /\ daily_should' = _get_daily_should(total_hits, interval)
    /\ sched_step' = "outdated"
    /\ UNCHANGED <<sched_type, total_hits, populated>>
    /\ UNCHANGED <<storeVars, passVars, redisVars, configVars, commentVars,
                   workerVars>>
    /\ UNCHANGED <<progressVars, manualVars>>

\* add_outdated, lines 75-76.
PopulateOutdated ==
    /\ sched_step = "outdated"
    /\ LET reindex_config == REINDEX_CONFIG(Types[sched_type])
           all_ids == _get_outdated_ids(reindex_config, daily_should)
       IN /\ populated' = [populated EXCEPT ![Types[sched_type]] = all_ids]
          /\ queue' = populate(queue, all_ids, reindex_config)
    /\ sched_type' = sched_type + 1
    /\ sched_step' = IF sched_type = Len(Types) THEN "done" ELSE "hits"
    /\ UNCHANGED <<total_hits, daily_should>>
    /\ UNCHANGED <<storeVars, passVars, configVars, commentVars, workerVars,
                   last_reindex>>
    /\ UNCHANGED <<progressVars, manualVars>>

(***************************************************************************)
(* Comments: build_json, format_comments, delete_comments, upload_comments *)
(* and reindex_comments.                                                   *)
(***************************************************************************)
\* A comment as the extractor returns it.
RawComment(n) == [id |-> n, timestamp |-> (n - 1) * 60 * 60]

\* clean_comment: the time text has the date alone when the comment was
\* made in the first minute of a day.
clean_comment(comment) ==
    [comment_id |-> comment.id,
     comment_timestamp |-> comment.timestamp,
     comment_time_text |->
        IF (comment.timestamp % DaySeconds) \div 60 = 0
        THEN "%Y-%m-%d" ELSE "%Y-%m-%d %H:%M"]

format_comments(comments_raw) ==
    [i \in 1..Len(comments_raw) |-> clean_comment(comments_raw[i])]

\* What YtWrap(yt_obs).extract(youtube_id) can answer: nothing, or an
\* info_json with its comments, distinct and at most MaxComments.
NoInfoJson == [ok |-> FALSE, comments |-> <<>>]

CommentPulls ==
    {NoInfoJson} \cup
    {[ok |-> TRUE, comments |-> [i \in 1..Len(ids) |-> RawComment(ids[i])]] :
        ids \in {q \in UNION {[1..n -> 1..MaxComments] : n \in 0..MaxComments} :
                    \A i, j \in 1..Len(q) : i # j => q[i] # q[j]}}

\* build_json, lines 35-46: comments_format and json_data.
BuildComments(comments_raw) ==
    IF comments_raw # <<>> THEN format_comments(comments_raw) ELSE <<>>

CommentDoc(youtube_id, format) ==
    [youtube_id |-> youtube_id, comment_comments |-> format]

\* delete_comments: ElasticWrap(es_path).delete
delete_comments(index, youtube_id) ==
    [i \in DOMAIN index \ {youtube_id} |-> index[i]]

\* upload_comments, line 145: ElasticWrap(es_path).put(json_data)
PutComments(index, youtube_id, format) ==
    [i \in DOMAIN index \cup {youtube_id} |->
        IF i = youtube_id THEN CommentDoc(youtube_id, format) ELSE index[i]]

\* upload_comments, lines 147-149: the partial update of the video.
UpdateCommentCount(videos, youtube_id, format) ==
    IF youtube_id \in DOMAIN videos
    THEN [videos EXCEPT ![youtube_id] =
             [f \in DOMAIN @ \cup {"comment_count"} |->
                 IF f = "comment_count" THEN Len(format) ELSE @[f]]]
    ELSE videos

\* reindex_comments, lines 174-179: whether the call ends before it writes.
KeepStoredNever(format, es_comments) == FALSE

KeepStored(format, es_comments) ==
    \/ format = <<>>
    \/ format = <<>> /\ es_comments.comment_comments # <<>>

\* reindex_comments on the stores: the comments index, the video index,
\* comments_format and how the call ended.
reindex_comments(comments, videos, youtube_id, activated, pull) ==
    IF ~activated
    THEN [comments |-> comments, videos |-> videos, format |-> <<>>,
          call |-> "inactive"]
    ELSE IF ~pull.ok
    THEN [comments |-> comments, videos |-> videos, format |-> <<>>,
          call |-> "raised"]
    ELSE LET format == BuildComments(pull.comments)
             es_comments == IF youtube_id \in DOMAIN comments
                            THEN comments[youtube_id] ELSE CommentDoc(0, <<>>)
         IN IF KeepStored(format, es_comments)
            THEN [comments |-> comments, videos |-> videos, format |-> format,
                  call |-> "kept"]
            ELSE [comments |-> PutComments(delete_comments(comments, youtube_id),
                                           youtube_id, format),
                  videos |-> UpdateCommentCount(videos, youtube_id, format),
                  format |-> format,
                  call |-> "uploaded"]

\* Comments(youtube_id).reindex_comments() called for a video.
ReindexComments(id) ==
    /\ \E pull \in CommentPulls :
          LET r == reindex_comments(ta_comment, ta_video, id, comment_max, pull)
          IN /\ ta_comment' = r.comments
             /\ ta_video' = r.videos
             /\ comments_format' = r.format
             /\ comments_call' = r.call
    /\ UNCHANGED <<ta_download, ta_channel, ta_playlist, comment_max>>
    /\ UNCHANGED <<passVars, redisVars, configVars, schedVars, workerVars>>
    /\ UNCHANGED <<progressVars, manualVars>>

(***************************************************************************)
(* The documents a refresh reads and writes.  A field that a document may  *)
(* lack (playlist, subtitles, channel_overwrites, comment_count) is in the *)
(* record's domain only when the document has it.                          *)
(***************************************************************************)
\* json_data[field] = value
With(doc, field, value) ==
    [f \in DOMAIN doc \cup {field} |-> IF f = field THEN value ELSE doc[f]]

\* The fields of over laid on doc.
Merge(over, doc) ==
    [f \in DOMAIN over \cup DOMAIN doc |->
        IF f \in DOMAIN over THEN over[f] ELSE doc[f]]

\* ElasticWrap(es_path).put(json_data): the document is replaced.
Put(index, id, json) ==
    [i \in DOMAIN index \cup {id} |-> IF i = id THEN json ELSE index[i]]

\* YouTubeItem.deactivate: the active field of the document set to false.
Deactivate(index, id, active_key) ==
    [index EXCEPT ![id] = With(@, active_key, FALSE)]

\* The answer of an upstream lookup: nothing, or the json_data built of it.
NotFound == [found |-> FALSE]

Found(json) == [found |-> TRUE, json |-> json]

\* YoutubeChannel(channel_id).get_from_youtube(): the subscription flag is
\* the default and an overwrite map may or may not come with the pull.
PulledChannel(channel_id) ==
    [channel_id |-> channel_id, channel_active |-> TRUE,
     channel_name |-> "new", channel_subscribed |-> FALSE,
     channel_last_refresh |-> now]

ChannelPulls(channel_id) ==
    {NotFound, Found(PulledChannel(channel_id)),
     Found(With(PulledChannel(channel_id), "channel_overwrites", {"pulled"}))}

\* YoutubeVideo(youtube_id).build_json() and check_subtitles(): player,
\* archival date and channel are built anew, and playlist and subtitles
\* may or may not come with the pull.
PulledVideo(youtube_id) ==
    [youtube_id |-> youtube_id, active |-> TRUE, title |-> "new",
     duration |-> "new", vid_thumb_url |-> "new", player |-> "pulled",
     date_downloaded |-> "pulled", channel |-> PulledChannel(1),
     vid_last_refresh |-> now]

VideoPulls(youtube_id) ==
    {NotFound, Found(PulledVideo(youtube_id)),
     Found(With(With(PulledVideo(youtube_id), "playlist", <<2>>),
                "subtitles", <<"new">>))}

\* YoutubePlaylist(playlist_id).build_json(scrape=True)
PulledPlaylist(playlist_id, all_youtube_ids) ==
    [playlist_id |-> playlist_id, playlist_active |-> TRUE,
     playlist_name |-> "new", playlist_subscribed |-> FALSE,
     playlist_entries |-> all_youtube_ids, playlist_last_refresh |-> now]

PlaylistPulls(playlist_id, all_youtube_ids) ==
    {NotFound, Found(PulledPlaylist(playlist_id, all_youtube_ids))}

(***************************************************************************)
(* Reindex._reindex_single_video_call and _reindex_single_video.           *)
(***************************************************************************)
\* Lines 274-278: the fields read before the pull are put back.
RestoreVideo(json, before) ==
    LET sticky == With(With(With(json, "player", before.player),
                            "date_downloaded", before.date_downloaded),
                       "channel", before.channel)
    IN IF "playlist" \in DOMAIN before /\ before.playlist # <<>>
       THEN With(sticky, "playlist", before.playlist)
       ELSE sticky

\* video.delete_subtitles(subtitles=subtitles): the subtitles listed are
\* removed from what is kept of the video.
delete_subtitles(kept, youtube_id, subtitles) ==
    [kept EXCEPT ![youtube_id] = SelectSeq(@, LAMBDA x : ~InList(x, subtitles))]

\* video.check_subtitles(): the subtitles that came with the pull are kept.
check_subtitles(kept, youtube_id, json) ==
    IF "subtitles" \in DOMAIN json
    THEN [kept EXCEPT ![youtube_id] = @ \o json.subtitles]
    ELSE kept

\* Line 262: subtitles = video.json_data.get("subtitles")
SubtitlesOf(doc) == IF "subtitles" \in DOMAIN doc THEN doc.subtitles ELSE <<>>

\* Lines 270-288: the refresh of a video whose metadata was pulled.
VideoResolved(videos, cached, comments, youtube_id, meta, pull) ==
    LET json == RestoreVideo(meta.json, videos[youtube_id])
        uploaded == Put(videos, youtube_id, json)
        c == reindex_comments(comments, uploaded, youtube_id, comment_max, pull)
        deleted == delete_subtitles(ta_subtitle, youtube_id,
                                    SubtitlesOf(videos[youtube_id]))
    IN [videos |-> c.videos,
        thumbs |-> [cached EXCEPT ![youtube_id] = json.vid_thumb_url],
        subtitles |-> check_subtitles(deleted, youtube_id, meta.json),
        comments |-> c.comments, format |-> c.format, call |-> c.call,
        writes |-> <<"delete_subtitles", "upload_to_es", "delete_video_thumb",
                     "download_video_thumb", "reindex_comments">>,
        raised |-> IF c.call = "raised" THEN "AttributeError" ELSE "no"]

\* Lines 266-268 without the return.
VideoUnresolvedGoesOn(videos, cached, comments, youtube_id, meta, pull) ==
    LET r == VideoResolved(Deactivate(videos, youtube_id, "active"), cached,
                           comments, youtube_id,
                           Found(videos[youtube_id]), pull)
    IN [r EXCEPT !.writes = <<"deactivate">> \o @]

\* Lines 266-268: deactivate and return.
VideoUnresolved(videos, cached, comments, youtube_id, meta, pull) ==
    [videos |-> Deactivate(videos, youtube_id, "active"),
     thumbs |-> cached, subtitles |-> ta_subtitle,
     comments |-> comments, format |-> comments_format,
     call |-> comments_call, writes |-> <<"deactivate">>, raised |-> "no"]

\* build_json raises when the media file is not where the record says.
VideoPathMissing(videos, cached, comments) ==
    [videos |-> videos, thumbs |-> cached, subtitles |-> ta_subtitle,
     comments |-> comments,
     format |-> comments_format, call |-> comments_call, writes |-> <<>>,
     raised |-> "FileNotFoundError"]

_reindex_single_video_call(videos, cached, comments, youtube_id, meta, pull) ==
    IF ~meta.found
    THEN VideoUnresolved(videos, cached, comments, youtube_id, meta, pull)
    ELSE IF youtube_id \notin media_exists
    THEN VideoPathMissing(videos, cached, comments)
    ELSE VideoResolved(videos, cached, comments, youtube_id, meta, pull)

\* ChannelUrlFixer(youtube_id, config): __init__ keeps the id and the config
\* and sets video to False; it reads and moves nothing.
ChannelUrlFixer(youtube_id) == [youtube_id |-> youtube_id, video |-> FALSE]

\* _reindex_single_video: on FileNotFoundError a ChannelUrlFixer object is
\* made, its run() is not called, and the call is made once more.  calls
\* lists what the wrapper has executed.
_reindex_single_video(videos, cached, comments, youtube_id, meta, again, pull) ==
    LET first == _reindex_single_video_call(videos, cached, comments,
                                            youtube_id, meta, pull)
    IN IF first.raised = "FileNotFoundError"
       THEN LET fixer == ChannelUrlFixer(youtube_id)
                second == _reindex_single_video_call(videos, cached, comments,
                                                     fixer.youtube_id, again,
                                                     pull)
            IN Merge([calls |-> <<"_reindex_single_video_call",
                                  "ChannelUrlFixer.__init__",
                                  "_reindex_single_video_call">>], second)
       ELSE Merge([calls |-> <<"_reindex_single_video_call">>], first)

(***************************************************************************)
(* Reindex._reindex_single_channel and _reindex_single_playlist.           *)
(***************************************************************************)
\* YoutubeChannel.sync_to_videos: every field of json_data is set in the
\* channel of the videos of the channel.
sync_to_videos(videos, channel_id, json) ==
    [v \in DOMAIN videos |->
        IF videos[v].channel.channel_id = channel_id
        THEN With(videos[v], "channel", Merge(json, videos[v].channel))
        ELSE videos[v]]

\* Lines 304-306: the fields read before the pull are put back.
RestoreChannel(json, before) ==
    LET sticky == With(json, "channel_subscribed", before.channel_subscribed)
    IN IF "channel_overwrites" \in DOMAIN before
          /\ before.channel_overwrites # {}
       THEN With(sticky, "channel_overwrites", before.channel_overwrites)
       ELSE sticky

\* Lines 298-299 with the document deleted.
ChannelUnresolvedDeleted(channels, channel_id) ==
    [c \in DOMAIN channels \ {channel_id} |-> channels[c]]

\* Lines 298-299: channel.deactivate().
ChannelUnresolved(channels, channel_id) ==
    Deactivate(channels, channel_id, "channel_active")

\* Lines 298-302 without the sync_to_videos of line 301.
ReindexSingleChannelNoSync(channels, videos, channel_id, meta) ==
    IF ~meta.found
    THEN [channels |-> ChannelUnresolved(channels, channel_id),
          videos |-> videos, writes |-> <<"deactivate">>]
    ELSE LET json == RestoreChannel(meta.json, channels[channel_id])
         IN [channels |-> Put(channels, channel_id, json),
             videos |-> sync_to_videos(videos, channel_id, json),
             writes |-> <<"upload_to_es", "sync_to_videos">>]

_reindex_single_channel(channels, videos, channel_id, meta) ==
    IF ~meta.found
    THEN LET deactivated == ChannelUnresolved(channels, channel_id)
         IN [channels |-> deactivated,
             videos |-> IF channel_id \in DOMAIN deactivated
                        THEN sync_to_videos(videos, channel_id,
                                            deactivated[channel_id])
                        ELSE videos,
             writes |-> <<"deactivate", "sync_to_videos">>]
    ELSE LET json == RestoreChannel(meta.json, channels[channel_id])
         IN [channels |-> Put(channels, channel_id, json),
             videos |-> sync_to_videos(videos, channel_id, json),
             writes |-> <<"upload_to_es", "sync_to_videos">>]

\* _get_all_videos, lines 328-329: the call goes on to read the index
\* unless all_indexed_ids is true, which neither False nor [] is.
ReadsIndex(cached_ids) == cached_ids = <<>>

\* _get_all_videos: the ids of ta_video, unless a list that is not empty
\* is cached.
_get_all_videos(cached_ids) ==
    IF ~ReadsIndex(cached_ids) THEN cached_ids ELSE SetToSeq(VideoResults)

\* Line 322: the subscription flag read before the pull is put back.
RestorePlaylist(json, before) ==
    With(json, "playlist_subscribed", before.playlist_subscribed)

_reindex_single_playlist(playlists, playlist_id, meta) ==
    IF ~meta.found
    THEN [playlists |-> Deactivate(playlists, playlist_id, "playlist_active"),
          writes |-> <<"deactivate">>]
    ELSE [playlists |-> Put(playlists, playlist_id,
                            RestorePlaylist(meta.json, playlists[playlist_id])),
          writes |-> <<"upload_to_es">>]

(***************************************************************************)
(* Reindex.reindex_all, reindex_index and cookie_invalid.                  *)
(***************************************************************************)
\* cookie_invalid: False without a cookie, else the answer of validate().
cookie_invalid(import, valid) == IF ~import THEN FALSE ELSE valid

\* The queue of the type the worker is at.
WorkerQueue(w) == REINDEX_CONFIG(Types[worker_type[w]]).queue_name

\* RedisQueue(queue_name).get_next(): the first id is taken off the list.
Popped(w) == [queue EXCEPT ![WorkerQueue(w)] = Tail(@)]

\* A worker that reads the end of the list while get_next() takes the head.
ReceiptOfEnd(w) ==
    [worker |-> w, type |-> Types[worker_type[w]],
     id |-> queue[WorkerQueue(w)][Len(queue[WorkerQueue(w)])]]

\* What get_next() hands to the worker: the type and the id.
Receipt(w) ==
    [worker |-> w, type |-> Types[worker_type[w]],
     id |-> Head(queue[WorkerQueue(w)])]

\* The loop of reindex_all asking has_item() of the same queue again.
NextTypeIsSame(w) ==
    /\ worker_pc' = [worker_pc EXCEPT ![w] = "has_item"]
    /\ worker_type' = worker_type

\* The loop of reindex_all goes to the next type, or ends.
NextType(w) ==
    IF worker_type[w] = Len(Types)
    THEN /\ worker_pc' = [worker_pc EXCEPT ![w] = "set_message"]
         /\ worker_type' = worker_type
    ELSE /\ worker_pc' = [worker_pc EXCEPT ![w] = "has_item"]
         /\ worker_type' = [worker_type EXCEPT ![w] = @ + 1]

\* reindex_all, lines 208-210.
CookieCheck(w) ==
    /\ worker_pc[w] = "start"
    /\ IF cookie_invalid(cookie_import, cookie_valid)
       THEN /\ worker_pc' = [worker_pc EXCEPT ![w] = "aborted"]
            /\ worker_type' = worker_type
       ELSE /\ worker_pc' = [worker_pc EXCEPT ![w] = "has_item"]
            /\ worker_type' = [worker_type EXCEPT ![w] = 1]
    /\ UNCHANGED <<media_exists, ta_subtitle, thumbs, all_indexed_ids, last,
                   received>>
    /\ UNCHANGED <<storeVars, passVars, redisVars, configVars, schedVars,
                   commentVars>>
    /\ UNCHANGED <<progressVars, manualVars>>

\* reindex_all going to the next type whatever has_item() answers.
HasItemUnasked(w) ==
    /\ worker_pc[w] = "has_item"
    /\ NextType(w)
    /\ UNCHANGED <<media_exists, ta_subtitle, thumbs, all_indexed_ids, last,
                   received>>
    /\ UNCHANGED <<storeVars, passVars, redisVars, configVars, schedVars,
                   commentVars>>
    /\ UNCHANGED <<progressVars, manualVars>>

\* reindex_all, lines 212-214.
HasItem(w) ==
    /\ worker_pc[w] = "has_item"
    /\ IF queue[WorkerQueue(w)] # <<>>
       THEN /\ worker_pc' = [worker_pc EXCEPT ![w] = "reindex_index"]
            /\ worker_type' = worker_type
       ELSE NextType(w)
    /\ UNCHANGED <<media_exists, ta_subtitle, thumbs, all_indexed_ids, last,
                   received>>
    /\ UNCHANGED <<storeVars, passVars, redisVars, configVars, schedVars,
                   commentVars>>
    /\ UNCHANGED <<progressVars, manualVars>>

\* reindex_index when get_next() finds the queue empty: the loop breaks.
QueueDrained(w) ==
    /\ worker_pc[w] = "reindex_index"
    /\ queue[WorkerQueue(w)] = <<>>
    /\ NextType(w)
    /\ UNCHANGED <<media_exists, ta_subtitle, thumbs, all_indexed_ids, last,
                   received>>
    /\ UNCHANGED <<storeVars, passVars, redisVars, configVars, schedVars,
                   commentVars>>
    /\ UNCHANGED <<progressVars, manualVars>>

\* The lookup the call that ended the refresh of a video has made.
Decisive(youtube_id, meta, again) ==
    IF meta.found /\ youtube_id \notin media_exists THEN again ELSE meta

\* reindex_index for a video: get_next(), _reindex_single_video.
ReindexVideo(w) ==
    /\ worker_pc[w] = "reindex_index"
    /\ Types[worker_type[w]] = "video"
    /\ queue[WorkerQueue(w)] # <<>>
    /\ LET youtube_id == Receipt(w).id
       IN \E meta \in VideoPulls(youtube_id) :
          \E again \in VideoPulls(youtube_id) :
          \E pull \in CommentPulls :
             LET r == _reindex_single_video(ta_video, thumbs, ta_comment,
                                            youtube_id, meta, again, pull)
             IN /\ ta_video' = r.videos
                /\ thumbs' = r.thumbs
                /\ ta_subtitle' = r.subtitles
                /\ ta_comment' = r.comments
                /\ comments_format' = r.format
                /\ comments_call' = r.call
                /\ worker_pc' = IF r.raised = "no" THEN worker_pc
                                ELSE [worker_pc EXCEPT ![w] = "raised"]
                /\ last' = [type |-> "video", id |-> youtube_id,
                            outcome |-> IF ~Decisive(youtube_id, meta, again).found
                                        THEN "unresolvable"
                                        ELSE IF r.raised # "no" THEN "raised"
                                        ELSE "refreshed",
                            writes |-> r.writes, calls |-> r.calls,
                            before |-> ta_video[youtube_id]]
    /\ queue' = Popped(w)
    /\ received' = Append(received, Receipt(w))
    /\ UNCHANGED <<ta_download, ta_channel, ta_playlist, comment_max,
                   last_reindex, media_exists, worker_type, all_indexed_ids>>
    /\ UNCHANGED <<passVars, configVars, schedVars>>
    /\ UNCHANGED <<progressVars, manualVars>>

\* reindex_index for a channel: get_next(), _reindex_single_channel.
ReindexChannel(w) ==
    /\ worker_pc[w] = "reindex_index"
    /\ Types[worker_type[w]] = "channel"
    /\ queue[WorkerQueue(w)] # <<>>
    /\ LET channel_id == Receipt(w).id
       IN \E meta \in ChannelPulls(channel_id) :
             LET r == _reindex_single_channel(ta_channel, ta_video,
                                              channel_id, meta)
             IN /\ ta_channel' = r.channels
                /\ ta_video' = r.videos
                /\ last' = [type |-> "channel", id |-> channel_id,
                            outcome |-> IF meta.found THEN "refreshed"
                                        ELSE "unresolvable",
                            writes |-> r.writes,
                            before |-> ta_channel[channel_id]]
    /\ queue' = Popped(w)
    /\ received' = Append(received, Receipt(w))
    /\ UNCHANGED <<ta_download, ta_playlist, last_reindex, media_exists,
                   ta_subtitle, thumbs,
                   worker_pc, worker_type, all_indexed_ids>>
    /\ UNCHANGED <<passVars, configVars, schedVars, commentVars>>
    /\ UNCHANGED <<progressVars, manualVars>>

\* reindex_index for a playlist: get_next(), _reindex_single_playlist.
ReindexPlaylist(w) ==
    /\ worker_pc[w] = "reindex_index"
    /\ Types[worker_type[w]] = "playlist"
    /\ queue[WorkerQueue(w)] # <<>>
    /\ LET playlist_id == Receipt(w).id
           ids == _get_all_videos(all_indexed_ids[w])
       IN /\ all_indexed_ids' = [all_indexed_ids EXCEPT ![w] = ids]
          /\ \E meta \in PlaylistPulls(playlist_id, ids) :
                LET r == _reindex_single_playlist(ta_playlist, playlist_id, meta)
                IN /\ ta_playlist' = r.playlists
                   /\ last' = [type |-> "playlist", id |-> playlist_id,
                               outcome |-> IF meta.found THEN "refreshed"
                                           ELSE "unresolvable",
                               writes |-> r.writes,
                               fetched |-> ReadsIndex(all_indexed_ids[w]),
                               before |-> ta_playlist[playlist_id]]
    /\ queue' = Popped(w)
    /\ received' = Append(received, Receipt(w))
    /\ UNCHANGED <<ta_download, ta_video, ta_channel, last_reindex,
                   media_exists, ta_subtitle,
                   thumbs, worker_pc, worker_type>>
    /\ UNCHANGED <<passVars, configVars, schedVars, commentVars>>
    /\ UNCHANGED <<progressVars, manualVars>>

\* reindex_all, line 221.
SetLastReindex(w) ==
    /\ worker_pc[w] = "set_message"
    /\ last_reindex' = <<now>>
    /\ worker_pc' = [worker_pc EXCEPT ![w] = "done"]
    /\ UNCHANGED <<queue, media_exists, ta_subtitle, thumbs, worker_type,
                   all_indexed_ids,
                   last, received>>
    /\ UNCHANGED <<storeVars, passVars, configVars, schedVars, commentVars>>
    /\ UNCHANGED <<progressVars, manualVars>>

(***************************************************************************)
(* A worker process that dies inside _reindex_single_video_call, after it  *)
(* has read the stored document and before upload_to_es.                   *)
(***************************************************************************)
\* The calls of lines 257-271 after which the process may die.
CrashPoints == <<"get_from_es", "build_json", "delete_subtitles",
                 "check_subtitles">>

\* What is kept of the subtitles when the process dies after the call at.
SubtitlesAtCrash(youtube_id, meta, at) ==
    LET deleted == delete_subtitles(ta_subtitle, youtube_id,
                                    SubtitlesOf(ta_video[youtube_id]))
    IN CASE CrashPoints[at] \in {"get_from_es", "build_json"} -> ta_subtitle
         [] CrashPoints[at] = "delete_subtitles" -> deleted
         [] CrashPoints[at] = "check_subtitles" ->
               check_subtitles(deleted, youtube_id, meta.json)

\* reindex_index for a video: get_next(), then the process dies in
\* _reindex_single_video_call before line 280.  Lines 270-271 are reached
\* only with metadata pulled and the media file in place.
CrashInRefresh(w) ==
    /\ worker_pc[w] = "reindex_index"
    /\ Types[worker_type[w]] = "video"
    /\ queue[WorkerQueue(w)] # <<>>
    /\ LET youtube_id == Receipt(w).id
       IN \E meta \in VideoPulls(youtube_id) : \E at \in DOMAIN CrashPoints :
             /\ CrashPoints[at] \in {"delete_subtitles", "check_subtitles"} =>
                    meta.found /\ youtube_id \in media_exists
             /\ ta_subtitle' = SubtitlesAtCrash(youtube_id, meta, at)
             /\ last' = [type |-> "video", id |-> youtube_id,
                         outcome |-> "crashed",
                         writes |-> IF ta_subtitle' = ta_subtitle THEN <<>>
                                    ELSE <<"delete_subtitles">>,
                         calls |-> <<"_reindex_single_video_call">>,
                         before |-> ta_video[youtube_id]]
    /\ worker_pc' = [worker_pc EXCEPT ![w] = "crashed"]
    /\ queue' = Popped(w)
    /\ received' = Append(received, Receipt(w))
    /\ UNCHANGED <<last_reindex, media_exists, thumbs, worker_type,
                   all_indexed_ids>>
    /\ UNCHANGED <<storeVars, passVars, configVars, schedVars, commentVars>>
    /\ UNCHANGED <<progressVars, manualVars>>

(***************************************************************************)
(* ReindexProgress: get_progress and the calls it makes.  No request_type  *)
(* is the empty string and no request_id is 0, both false in the code.     *)
(***************************************************************************)
\* The keys of REINDEX_CONFIG.
KnownTypes == Range(Types)

\* progress before get_progress returns: the queues read so far.
NoProgress == [type |-> "none", read |-> 0]

\* The request types and ids a caller asks with.
RequestTypes == {"", "video", "channel", "playlist", "comment"}

RequestIds == {0, 1, 2}

\* RedisQueue(queue_name).get_all(): the list under the key, empty when
\* there is none.
get_all(queue_name) ==
    IF queue_name \in DOMAIN queue THEN queue[queue_name] ELSE <<>>

\* RedisQueue(queue_name).in_queue(element): whether the list holds it now.
in_queue(queue_name, element) == InList(element, get_all(queue_name))

\* _get_queue_name that takes a request without a type for one of videos.
GetQueueNameOfVideos(type) ==
    IF type \in KnownTypes
    THEN [raised |-> FALSE, queue_name |-> REINDEX_CONFIG(type).queue_name,
          type |-> type]
    ELSE [raised |-> type # "", queue_name |-> "reindex:ta_video",
          type |-> IF type = "" THEN "all" ELSE type]

\* _get_queue_name: the queue and the type of the request, or ValueError.
_get_queue_name(type) ==
    IF type = "" THEN [raised |-> FALSE, queue_name |-> "all", type |-> "all"]
    ELSE IF type \notin KnownTypes
    THEN [raised |-> TRUE, queue_name |-> "none", type |-> type]
    ELSE [raised |-> FALSE, queue_name |-> REINDEX_CONFIG(type).queue_name,
          type |-> type]

\* The queues _get_total_in_queue reads, in the order it reads them.
QueuesRead(queue_name) ==
    IF queue_name = "all"
    THEN [i \in 1..Len(Types) |-> REINDEX_CONFIG(Types[i]).queue_name]
    ELSE <<queue_name>>

\* _get_state with the state taken from the total read before.
GetStateOfTotal(total_queued, queue_name, id) ==
    IF id # 0
    THEN [id |-> id, state |-> total_queued # 0]
    ELSE [state |-> IF total_queued # 0 THEN "running" ELSE "empty"]

\* _get_state: with an id, whether it is in the queue; without, whether
\* anything is queued.
_get_state(total_queued, queue_name, id) ==
    IF id # 0
    THEN [id |-> id, state |-> in_queue(queue_name, id)]
    ELSE [state |-> IF total_queued # 0 THEN "running" ELSE "empty"]

\* ReindexProgress(request_type, request_id).get_progress(), line 364.
GetQueueName ==
    /\ progress_pc \in {"idle", "returned", "raised"}
    /\ \E type \in RequestTypes : \E id \in RequestIds :
          /\ request_type' = type
          /\ request_id' = id
          /\ progress_pc' = IF _get_queue_name(type).raised THEN "raised"
                            ELSE "get_total"
    /\ total' = 0
    /\ progress' = NoProgress
    /\ UNCHANGED <<storeVars, passVars, redisVars, configVars, schedVars,
                   commentVars, workerVars, manualVars>>

\* _get_total_in_queue: one get_all() a step.
GetTotalInQueue ==
    /\ progress_pc = "get_total"
    /\ LET reads == QueuesRead(_get_queue_name(request_type).queue_name)
           n == progress.read + 1
       IN /\ total' = total + Len(get_all(reads[n]))
          /\ progress_pc' = IF n = Len(reads) THEN "get_state" ELSE "get_total"
          /\ progress' = [progress EXCEPT !.read = n]
    /\ UNCHANGED <<request_type, request_id>>
    /\ UNCHANGED <<storeVars, passVars, redisVars, configVars, schedVars,
                   commentVars, workerVars, manualVars>>

\* get_progress, lines 367-374: _get_state and the dictionary returned.
GetState ==
    /\ progress_pc = "get_state"
    /\ LET name == _get_queue_name(request_type)
       IN progress' = Merge(_get_state(total, name.queue_name, request_id),
                            [total_queued |-> total, type |-> name.type])
    /\ progress_pc' = "returned"
    /\ UNCHANGED <<request_type, request_id, total>>
    /\ UNCHANGED <<storeVars, passVars, redisVars, configVars, schedVars,
                   commentVars, workerVars, manualVars>>

(***************************************************************************)
(* ReindexManual: extract_data and the calls it makes.  data is the list   *)
(* of the items of the map, in the order the loop meets them.              *)
(***************************************************************************)
Item(key, values) == [key |-> key, values |-> values]

\* The maps a caller hands to extract_data.
ManualRequests ==
    { <<Item("video", <<1, 2>>)>>,
      <<Item("video", <<2, 2>>), Item("channel", <<1>>)>>,
      <<Item("channel", <<1>>), Item("playlist", <<1>>)>>,
      <<Item("video", <<>>), Item("playlist", <<1>>)>>,
      <<Item("video", <<2>>), Item("comment", <<1>>), Item("channel", <<1>>)>>,
      <<Item("comment", <<1>>)>> }

\* _get_channel_videos: the ids of the videos of ta_video whose
\* channel.channel_id is the channel.
_get_channel_videos(channel_id) ==
    SetToSeq({v \in DOMAIN ta_video :
                 /\ "channel" \in DOMAIN ta_video[v]
                 /\ ta_video[v].channel.channel_id = channel_id})

\* _get_playlist_videos: the ids of the videos of ta_video whose playlist
\* field holds the playlist.
_get_playlist_videos(playlist_id) ==
    SetToSeq({v \in DOMAIN ta_video :
                 /\ "playlist" \in DOMAIN ta_video[v]
                 /\ InList(playlist_id, ta_video[v].playlist)})

\* _add_videos with a push that takes no notice of what the list holds.
AddVideosPushed(q, values) ==
    [q EXCEPT !["reindex:ta_video"] = @ \o values]

_add_videos(q, values) ==
    IF values = <<>> THEN q
    ELSE [q EXCEPT !["reindex:ta_video"] = AddList(@, values)]

RECURSIVE AddVideosOf(_, _, _)
\* The loop of _add_channels and of _add_playlists over values when
\* extract_videos is set: the videos of each are added.
AddVideosOf(q, values, index_name) ==
    IF values = <<>> THEN q
    ELSE AddVideosOf(_add_videos(q, IF index_name = "ta_channel"
                                    THEN _get_channel_videos(Head(values))
                                    ELSE _get_playlist_videos(Head(values))),
                     Tail(values), index_name)

_add_channels(q, values, cascade) ==
    LET added == [q EXCEPT !["reindex:ta_channel"] = AddList(@, values)]
    IN IF cascade THEN AddVideosOf(added, values, "ta_channel")
       ELSE added

\* _add_playlists without lines 175-178.
AddPlaylistsNoCascade(q, values, cascade) ==
    [q EXCEPT !["reindex:ta_playlist"] = AddList(@, values)]

_add_playlists(q, values, cascade) ==
    LET added == [q EXCEPT !["reindex:ta_playlist"] = AddList(@, values)]
    IN IF cascade THEN AddVideosOf(added, values, "ta_playlist")
       ELSE added

process_index(q, index_config, values, cascade) ==
    CASE index_config.index_name = "ta_video" -> _add_videos(q, values)
      [] index_config.index_name = "ta_channel" ->
            _add_channels(q, values, cascade)
      [] index_config.index_name = "ta_playlist" ->
            _add_playlists(q, values, cascade)

\* ReindexManual(extract_videos).extract_data(data), line 136.
ExtractData ==
    /\ manual_pc \in {"idle", "returned", "raised"}
    /\ manual_data' \in ManualRequests
    /\ extract_videos' \in BOOLEAN
    /\ manual_pos' = 0
    /\ manual_pc' = "running"
    /\ UNCHANGED <<storeVars, passVars, redisVars, configVars, schedVars,
                   commentVars, workerVars, progressVars>>

\* extract_data, lines 137-143: one turn of the loop over data.items().
ProcessItem ==
    /\ manual_pc = "running"
    /\ LET item == manual_data[manual_pos + 1]
       IN IF item.key \notin KnownTypes
          THEN /\ manual_pc' = "raised"
               /\ UNCHANGED <<queue, manual_pos>>
          ELSE /\ queue' = process_index(queue, REINDEX_CONFIG(item.key),
                                         item.values, extract_videos)
               /\ manual_pos' = manual_pos + 1
               /\ manual_pc' = IF manual_pos + 1 = Len(manual_data)
                               THEN "returned" ELSE "running"
    /\ UNCHANGED <<manual_data, extract_videos, last_reindex>>
    /\ UNCHANGED <<storeVars, passVars, configVars, schedVars, commentVars,
                   workerVars, progressVars>>

\* ReindexOutdated().add_outdated() called: the loop starts.
AddOutdated ==
    /\ sched_step \in {"idle", "done"}
    /\ sched_type' = 1
    /\ sched_step' = "hits"
    /\ total_hits' = 0
    /\ daily_should' = 0
    /\ populated' = [t \in Range(Types) |-> <<>>]
    /\ UNCHANGED <<storeVars, passVars, redisVars, configVars, commentVars,
                   workerVars, progressVars, manualVars>>

(***************************************************************************)
(* The state of each component before it has run.                          *)
(***************************************************************************)
\* The redis lists of the three refresh queues.
QueueNames == {"reindex:ta_video", "reindex:ta_channel", "reindex:ta_playlist"}

NoDocs == [i \in {} |-> [active |-> TRUE]]

IdlePasses ==
    /\ pc = [p \in Passes |-> "idle"]
    /\ youtube_ids = [p \in Passes |-> <<>>]
    /\ to_skip = [p \in Passes |-> <<>>]
    /\ missing_videos = [p \in Passes |-> <<>>]
    /\ bulk_list = [p \in Passes |-> <<>>]
    /\ bulk_pos = [p \in Passes |-> 0]
    /\ snap_queued = [p \in Passes |-> {}]
    /\ snap_indexed = [p \in Passes |-> {}]
    /\ message_add = [p \in Passes |-> <<>>]
    /\ extracted = [p \in Passes |-> <<>>]
    /\ messages = [p \in Passes |-> <<>>]

IdleProgress ==
    /\ request_type = ""
    /\ request_id = 0
    /\ progress_pc = "idle"
    /\ total = 0
    /\ progress = NoProgress

IdleManual ==
    /\ manual_data = <<>>
    /\ extract_videos = FALSE
    /\ manual_pos = 0
    /\ manual_pc = "idle"

EmptyQueues ==
    /\ queue = [n \in QueueNames |-> <<>>]
    /\ last_reindex = <<>>

NoCookie ==
    /\ cookie_import = FALSE
    /\ cookie_valid = TRUE

NoRefresh == [type |-> "none", id |-> 0, outcome |-> "none", writes |-> <<>>]

IdleWorker ==
    /\ media_exists = {}
    /\ thumbs = [i \in {} |-> "old"]
    /\ ta_subtitle = [i \in {} |-> <<>>]
    /\ worker_pc = [w \in Workers |-> "idle"]
    /\ worker_type = [w \in Workers |-> 0]
    /\ all_indexed_ids = [w \in Workers |-> <<>>]
    /\ last = NoRefresh
    /\ received = <<>>

IdleSched ==
    /\ sched_type = 0
    /\ sched_step = "idle"
    /\ total_hits = 0
    /\ daily_should = 0
    /\ populated = [t \in {"video", "channel", "playlist"} |-> <<>>]

IdleComments ==
    /\ ta_comment = NoDocs
    /\ comment_max = FALSE
    /\ comments_format = <<>>
    /\ comments_call = "none"

(***************************************************************************)
(* SpecResolve: the store holds any pending, ignored and indexed ids, and  *)
(* two passes run, their steps interleaved.                                *)
(***************************************************************************)
VideoDoc == [active |-> TRUE]

\* What the stores hold of one id before the passes start.
IdClasses == {"new", "pending", "ignore", "indexed"}

InitResolve ==
    /\ \E class \in [VideoIds -> IdClasses] :
          /\ ta_download = {DownloadDoc(i, class[i], "init") :
                               i \in {j \in VideoIds : class[j] \in {"pending", "ignore"}}}
          /\ ta_video = [i \in {j \in VideoIds : class[j] = "indexed"} |-> VideoDoc]
    /\ ta_playlist = NoDocs
    /\ ta_channel = NoDocs
    /\ IdlePasses
    /\ EmptyQueues
    /\ interval = 1
    /\ now = 0
    /\ IdleSched
    /\ IdleComments
    /\ NoCookie
    /\ IdleWorker
    /\ IdleProgress
    /\ IdleManual

NextResolve ==
    \E p \in Passes :
        \/ GetDownload(p)
        \/ ParseUrlList(p)
        \/ AddToPending(p)
        \/ BulkPost(p)

SpecResolve == InitResolve /\ [][NextResolve]_vars

(***************************************************************************)
(* Properties of a resolution pass.                                        *)
(***************************************************************************)
\* The ids a pass sends in its batched create request.
SentIds(p) == {bulk_list[p][i].action._id : i \in 1..Len(bulk_list[p])}

\* C1: no identifier that is an indexed item when the pass reads ta_video is
\* placed in missing_videos or sent in the batched create request, whether
\* it was given directly or came as a member of a channel or playlist.
C1_IndexedNeverRequeued ==
    \A p \in Passes : \A id \in snap_indexed[p] :
        /\ ~InList(id, missing_videos[p])
        /\ id \notin SentIds(p)

\* A pass that reached an indexed id through a channel or playlist entry
\* and still sent a request for other ids.
C1_Witness ==
    \E p \in Passes :
        /\ pc[p] = "done"
        /\ SentIds(p) # {}
        /\ \E i \in 1..Len(youtube_ids[p]) :
              /\ youtube_ids[p][i].type \in {"channel", "playlist"}
              /\ ReachedIds(<<youtube_ids[p][i]>>) \cap snap_indexed[p] # {}

\* C2: no identifier that is in ta_download with status pending or ignore
\* when the pass reads it is placed in missing_videos or sent in the create
\* request, and ta_download never holds two documents for one identifier.
C2_QueuedNeverDuplicated ==
    /\ \A p \in Passes : \A id \in snap_queued[p] :
          /\ ~InList(id, missing_videos[p])
          /\ id \notin SentIds(p)
    /\ \A d1, d2 \in ta_download : d1.youtube_id = d2.youtube_id => d1 = d2

\* A finished pass that reached an ignored id and a pending id and sent a
\* request for another id.
C2_Witness ==
    \E p \in Passes :
        /\ pc[p] = "done"
        /\ SentIds(p) # {}
        /\ \E d1, d2 \in ta_download :
              /\ d1.by = "init" /\ d1.status = "ignore"
              /\ d2.by = "init" /\ d2.status = "pending"
              /\ {d1.youtube_id, d2.youtube_id}
                    \subseteq ReachedIds(youtube_ids[p]) \cap snap_queued[p]

\* Both passes are done and sent a create for the same identifier.
BothSent(id) ==
    /\ \A p \in Passes : pc[p] = "done" /\ id \in SentIds(p)

\* C3: when two passes both resolve the same new identifier and both commit,
\* ta_download ends with exactly one document for it, a committed document
\* is never overwritten or removed by a later create, and every other item
\* of either request has its document.
C3_ConflictFailsAlone ==
    /\ [](\A id \in VideoIds : BothSent(id) =>
            /\ Cardinality({d \in ta_download : d.youtube_id = id}) = 1
            /\ \A p \in Passes : \A other \in SentIds(p) :
                  \E d \in ta_download : d._id = other)
    /\ [][\A d \in ta_download : d \in ta_download']_vars

\* Both passes read the stores before either committed, both sent a create
\* for the same new id, and the second pass sent another id as well, which
\* it created.
C3_Witness ==
    \E id \in VideoIds : \E p \in Passes :
        /\ BothSent(id)
        /\ \A q \in Passes : id \notin snap_queued[q]
        /\ \E d \in ta_download : d.youtube_id = id /\ d.by # p
        /\ \E d \in ta_download : d.youtube_id # id /\ d.by = p

\* The ids a pass has made a document of ta_download for.
CreatedBy(p) == {d.youtube_id : d \in {r \in ta_download : r.by = p}}

\* The pass p ran alone over one channel and get_youtube_details accepted
\* every id of missing_videos.
ChannelSubmitted(p, url) ==
    /\ pc[p] = "done"
    /\ \A q \in Passes \ {p} : pc[q] = "idle"
    /\ youtube_ids[p] = <<Entry("channel", url)>>
    /\ SentIds(p) = Range(missing_videos[p])

\* C14: a pass over one channel, every id accepted, makes one document of
\* ta_download for each member of the channel that was neither in ta_video
\* nor in ta_download, and no other; the last progress message it has set
\* carries n/n, n the number of documents made, and none is set when n = 0.
C14_OnePerAbsentMember ==
    \A p \in Passes : \A url \in ChannelIds :
        ChannelSubmitted(p, url) =>
            LET absent == Range(ChannelLookup(url))
                             \ (DOMAIN ta_video \cup CreatedBy("init"))
                n == Cardinality(absent)
            IN /\ CreatedBy(p) = absent
               /\ Cardinality({d \in ta_download : d.by = p}) = n
               /\ message_add[p] = IF n = 0 THEN <<>> ELSE <<n, n>>

\* A channel of which one member is indexed and one is pending: one
\* document is made and the message carries 1/1.
C14_Witness ==
    \E p \in Passes : \E url \in ChannelIds :
        /\ ChannelSubmitted(p, url)
        /\ \E i \in Range(ChannelLookup(url)) : i \in DOMAIN ta_video
        /\ \E d \in ta_download : d.by = "init" /\ d.status = "pending"
        /\ Cardinality(CreatedBy(p)) = 1
        /\ message_add[p] = <<1, 1>>

\* C17: missing_videos holds an id if and only if _add_video was called
\* with it in the pass and to_skip does not hold it; it holds no id twice,
\* however many entries lead to the id; and to_skip is as get_download and
\* get_indexed left it from then on.
C17_MissingIffAbsentOnce ==
    /\ [](\A p \in Passes : pc[p] \in {"parsed", "raised", "posting", "done"} =>
             /\ Range(missing_videos[p])
                   = ReachedIds(youtube_ids[p]) \ Range(to_skip[p])
             /\ NoDuplicates(missing_videos[p]))
    /\ [][\A p \in Passes : pc[p] \notin {"idle", "snapshot"} =>
             to_skip'[p] = to_skip[p]]_vars

\* An id that comes with a playlist after it was given directly is in
\* missing_videos once, and to_skip holds ids.
C17_Witness ==
    \E q \in Passes :
        /\ pc[q] = "parsed"
        /\ youtube_ids[q] = <<Entry("video", 2), Entry("playlist", 1)>>
        /\ missing_videos[q] = <<2, NumVideos>>
        /\ to_skip[q] # <<>>

(***************************************************************************)
(* SpecQuota: _get_daily_should on the counts and intervals of Init.       *)
(***************************************************************************)
\* Counts of active documents beside 0..MaxHits.
SampleHits == {100, 700, 8332, 8333, 8334, 9999, 10000, 1000000}

InitQuota ==
    /\ ta_download = {}
    /\ ta_video = NoDocs
    /\ ta_channel = NoDocs
    /\ ta_playlist = NoDocs
    /\ IdlePasses
    /\ EmptyQueues
    /\ interval \in 1..MaxDays
    /\ now = 0
    /\ sched_type = 1
    /\ sched_step = "should"
    /\ total_hits \in (0..MaxHits) \cup SampleHits
    /\ daily_should = 0
    /\ populated = [t \in Range(Types) |-> <<>>]
    /\ IdleComments
    /\ NoCookie
    /\ IdleWorker
    /\ IdleProgress
    /\ IdleManual

NextQuota == GetDailyShould

SpecQuota == InitQuota /\ [][NextQuota]_vars

(***************************************************************************)
(* SpecSched: one add_outdated pass over indexes of outdated, fresh and    *)
(* inactive documents.                                                     *)
(***************************************************************************)
SchedNow == 100 * DaySeconds

\* The document of ta_video number k of a layout: the first old documents
\* are active and outdated, the next fresh ones are active and refreshed
\* a second after now - interval days, the rest are inactive and outdated.
\* The oldest outdated document is refreshed interval days before now to
\* the second; order says whether the ids ascend or descend with the age.
SchedVideoDoc(k, old, fresh, days, order) ==
    LET lte == SchedNow - days * DaySeconds
        age == IF order = "asc" THEN k - 1 ELSE old - k
    IN IF k <= old
       THEN [active |-> TRUE, vid_last_refresh |-> lte - age * DaySeconds]
       ELSE IF k <= old + fresh
       THEN [active |-> TRUE, vid_last_refresh |-> lte + 1]
       ELSE [active |-> FALSE, vid_last_refresh |-> lte - DaySeconds]

InitSched ==
    /\ ta_download = {}
    /\ interval \in 1..MaxDays
    /\ now = SchedNow
    /\ \E old \in 0..MaxIndexed : \E fresh \in 0..(MaxIndexed - old) :
       \E inactive \in 0..(MaxIndexed - old - fresh) :
       \E order \in {"asc", "desc"} :
          ta_video = [k \in 1..(old + fresh + inactive) |->
                         SchedVideoDoc(k, old, fresh, interval, order)]
    /\ \E active \in BOOLEAN :
          ta_channel = [c \in ChannelIds |->
                           [channel_active |-> active,
                            channel_last_refresh |-> 0]]
    /\ \E refresh \in {0, SchedNow} :
          ta_playlist = [c \in PlaylistIds |->
                            [playlist_active |-> TRUE,
                             playlist_subscribed |-> FALSE,
                             playlist_last_refresh |-> refresh]]
    /\ IdlePasses
    /\ EmptyQueues
    /\ sched_type = 1
    /\ sched_step = "hits"
    /\ total_hits = 0
    /\ daily_should = 0
    /\ populated = [t \in Range(Types) |-> <<>>]
    /\ IdleComments
    /\ NoCookie
    /\ IdleWorker
    /\ IdleProgress
    /\ IdleManual

NextSched ==
    \/ GetTotalHits
    \/ GetDailyShould
    \/ PopulateOutdated

SpecSched == InitSched /\ [][NextSched]_vars


(***************************************************************************)
(* SpecComments: reindex_comments called again and again for the videos,   *)
(* over stored comment documents that are absent, empty or not empty.      *)
(***************************************************************************)
CommentVideoIds == {1, 2}

\* The comment lists a stored document can hold.
StoredComments ==
    {BuildComments(p.comments) : p \in CommentPulls \ {NoInfoJson}}

InitComments ==
    /\ ta_download = {}
    /\ ta_video = [i \in CommentVideoIds |-> VideoDoc]
    /\ ta_channel = NoDocs
    /\ ta_playlist = NoDocs
    /\ IdlePasses
    /\ EmptyQueues
    /\ interval = 1
    /\ now = 0
    /\ IdleSched
    /\ \E with \in SUBSET CommentVideoIds :
       \E stored \in [with -> StoredComments] :
          ta_comment = [i \in with |-> CommentDoc(i, stored[i])]
    /\ comment_max \in BOOLEAN
    /\ comments_format = <<>>
    /\ comments_call = "none"
    /\ NoCookie
    /\ IdleWorker
    /\ IdleProgress
    /\ IdleManual

NextComments == \E id \in CommentVideoIds : ReindexComments(id)

SpecComments == InitComments /\ [][NextComments]_vars

(***************************************************************************)
(* SpecRefresh: one reindex_all cycle of a worker over queues of videos,   *)
(* a channel and a playlist, with and without a cookie.                    *)
(***************************************************************************)
RefreshVideoIds == {1, 2}

StoredChannel(channel_id) ==
    [channel_id |-> channel_id, channel_active |-> TRUE,
     channel_name |-> "old", channel_subscribed |-> TRUE,
     channel_last_refresh |-> 0]

StoredVideo(youtube_id, channel) ==
    [youtube_id |-> youtube_id, active |-> TRUE, title |-> "old",
     duration |-> "old", vid_thumb_url |-> "old", player |-> "mine",
     date_downloaded |-> "mine", channel |-> channel,
     vid_last_refresh |-> 0, subtitles |-> <<"old">>]

StoredPlaylist(playlist_id) ==
    [playlist_id |-> playlist_id, playlist_active |-> TRUE,
     playlist_name |-> "old", playlist_subscribed |-> TRUE,
     playlist_entries |-> <<>>, playlist_last_refresh |-> 0]

\* The queues a cycle starts with: videos, channels, playlists.
RefreshQueues ==
    { <<<<>>, <<>>, <<>>>>,
      <<<<1>>, <<>>, <<1>>>>,
      <<<<2, 1>>, <<1>>, <<>>>>,
      <<<<1, 2>>, <<1>>, <<1>>>>,
      <<<<>>, <<1>>, <<1>>>> }

InitRefresh ==
    /\ ta_download = {}
    /\ \E channel \in {StoredChannel(1),
                        With(StoredChannel(1), "channel_overwrites", {}),
                        With(StoredChannel(1), "channel_overwrites", {"mine"})} :
          /\ ta_channel = [c \in ChannelIds |-> channel]
          /\ \E first \in {StoredVideo(1, channel),
                            With(StoredVideo(1, channel), "playlist", <<>>),
                            With(StoredVideo(1, channel), "playlist", <<1>>)} :
                ta_video = [v \in RefreshVideoIds |->
                               IF v = 1 THEN first
                               ELSE With(StoredVideo(v, channel), "playlist", <<1>>)]
    /\ ta_playlist = [p \in PlaylistIds |-> StoredPlaylist(p)]
    /\ ta_comment = [v \in {1} |-> CommentDoc(v, format_comments(<<RawComment(1)>>))]
    /\ comment_max \in BOOLEAN
    /\ comments_format = <<>>
    /\ comments_call = "none"
    /\ IdlePasses
    /\ \E q \in RefreshQueues :
          queue = [n \in QueueNames |->
                      CASE n = "reindex:ta_video" -> q[1]
                        [] n = "reindex:ta_channel" -> q[2]
                        [] n = "reindex:ta_playlist" -> q[3]]
    /\ last_reindex = <<>>
    /\ interval = 1
    /\ now = SchedNow
    /\ cookie_import \in BOOLEAN
    /\ cookie_valid \in BOOLEAN
    /\ IdleSched
    /\ media_exists \in {RefreshVideoIds, RefreshVideoIds \ {1}}
    /\ thumbs = [v \in RefreshVideoIds |-> "old"]
    /\ ta_subtitle = [v \in RefreshVideoIds |-> <<"old">>]
    /\ worker_pc = [w \in Workers |-> IF w = "w1" THEN "start" ELSE "idle"]
    /\ worker_type = [w \in Workers |-> 0]
    /\ all_indexed_ids = [w \in Workers |-> <<>>]
    /\ last = NoRefresh
    /\ received = <<>>
    /\ IdleProgress
    /\ IdleManual

NextRefresh ==
    \E w \in Workers :
        \/ CookieCheck(w)
        \/ HasItem(w)
        \/ QueueDrained(w)
        \/ ReindexVideo(w)
        \/ ReindexChannel(w)
        \/ ReindexPlaylist(w)
        \/ SetLastReindex(w)

SpecRefresh == InitRefresh /\ [][NextRefresh]_vars

\* SpecRefreshLive: the cycle of SpecRefresh with a worker that goes on as
\* long as it has a step to take: every call it makes returns or raises.
SpecRefreshLive == SpecRefresh /\ WF_vars(NextRefresh)

(***************************************************************************)
(* SpecProgress: get_progress calls while one worker drains the queues.    *)
(***************************************************************************)
\* The stores and the queues of a refresh cycle, with no cookie.
StartOfCycle(workers) ==
    /\ ta_download = {}
    /\ ta_channel = [c \in ChannelIds |-> StoredChannel(c)]
    /\ ta_video = [v \in RefreshVideoIds |-> StoredVideo(v, StoredChannel(1))]
    /\ ta_playlist = [p \in PlaylistIds |-> StoredPlaylist(p)]
    /\ IdleComments
    /\ IdlePasses
    /\ \E q \in RefreshQueues :
          queue = [n \in QueueNames |->
                      CASE n = "reindex:ta_video" -> q[1]
                        [] n = "reindex:ta_channel" -> q[2]
                        [] n = "reindex:ta_playlist" -> q[3]]
    /\ last_reindex = <<>>
    /\ interval = 1
    /\ now = SchedNow
    /\ NoCookie
    /\ IdleSched
    /\ media_exists = RefreshVideoIds
    /\ thumbs = [v \in RefreshVideoIds |-> "old"]
    /\ ta_subtitle = [v \in RefreshVideoIds |-> <<"old">>]
    /\ worker_pc = [w \in Workers |-> IF w \in workers THEN "start" ELSE "idle"]
    /\ worker_type = [w \in Workers |-> 0]
    /\ all_indexed_ids = [w \in Workers |-> <<>>]
    /\ last = NoRefresh
    /\ received = <<>>

InitProgress ==
    /\ StartOfCycle({"w1"})
    /\ IdleProgress
    /\ IdleManual

NextProgress ==
    \/ NextRefresh
    \/ GetQueueName
    \/ GetTotalInQueue
    \/ GetState

SpecProgress == InitProgress /\ [][NextProgress]_vars

(***************************************************************************)
(* SpecEnqueue: add_outdated passes and extract_data calls, one after the  *)
(* other and interleaved, over queues that hold ids already.               *)
(***************************************************************************)
\* What the queues hold when the producers start: videos, channels,
\* playlists.
EnqueueQueues ==
    { <<<<>>, <<>>, <<>>>>,
      <<<<2>>, <<1>>, <<>>>>,
      <<<<2, 1>>, <<>>, <<1>>>> }

InitEnqueue ==
    /\ ta_download = {}
    /\ ta_channel = [c \in ChannelIds |-> StoredChannel(c)]
    /\ ta_video = [v \in VideoIds |->
                      IF v = 1 THEN StoredVideo(v, StoredChannel(1))
                      ELSE With(StoredVideo(v, StoredChannel(1)), "playlist", <<1>>)]
    /\ ta_playlist = [p \in PlaylistIds |-> StoredPlaylist(p)]
    /\ IdleComments
    /\ IdlePasses
    /\ \E q \in EnqueueQueues :
          queue = [n \in QueueNames |->
                      CASE n = "reindex:ta_video" -> q[1]
                        [] n = "reindex:ta_channel" -> q[2]
                        [] n = "reindex:ta_playlist" -> q[3]]
    /\ last_reindex = <<>>
    /\ interval \in {1, 2}
    /\ now = SchedNow
    /\ NoCookie
    /\ IdleSched
    /\ IdleWorker
    /\ IdleProgress
    /\ IdleManual

NextEnqueue ==
    \/ AddOutdated
    \/ GetTotalHits
    \/ GetDailyShould
    \/ PopulateOutdated
    \/ ExtractData
    \/ ProcessItem

SpecEnqueue == InitEnqueue /\ [][NextEnqueue]_vars

(***************************************************************************)
(* SpecWorkers: two workers run reindex_all over the same queues.          *)
(***************************************************************************)
InitWorkers ==
    /\ StartOfCycle(Workers)
    /\ IdleProgress
    /\ IdleManual

NextWorkers == NextRefresh

SpecWorkers == InitWorkers /\ [][NextWorkers]_vars

(***************************************************************************)
(* SpecCrash: the cycle of SpecRefresh with a worker process that may die  *)
(* in the refresh of a video.                                              *)
(***************************************************************************)
NextCrash ==
    \/ NextRefresh
    \/ \E w \in Workers : CrashInRefresh(w)

SpecCrash == InitRefresh /\ [][NextCrash]_vars

(***************************************************************************)
(* SpecPlaylists: a cycle of one worker with two playlists queued, over an *)
(* index ta_video that holds videos or none.                               *)
(***************************************************************************)
InitPlaylists ==
    /\ ta_download = {}
    /\ ta_channel = [c \in ChannelIds |-> StoredChannel(c)]
    /\ ta_video \in {NoDocs,
                     [v \in RefreshVideoIds |-> StoredVideo(v, StoredChannel(1))]}
    /\ ta_playlist = [p \in {1, 2} |-> StoredPlaylist(p)]
    /\ IdleComments
    /\ IdlePasses
    /\ \E playlists \in {<<1, 2>>, <<2, 1>>, <<2>>} :
          queue = [n \in QueueNames |->
                      CASE n = "reindex:ta_video" ->
                              IF ta_video = NoDocs THEN <<>> ELSE <<1>>
                        [] n = "reindex:ta_channel" -> <<1>>
                        [] n = "reindex:ta_playlist" -> playlists]
    /\ last_reindex = <<>>
    /\ interval = 1
    /\ now = SchedNow
    /\ NoCookie
    /\ IdleSched
    /\ media_exists = RefreshVideoIds
    /\ thumbs = [v \in RefreshVideoIds |-> "old"]
    /\ ta_subtitle = [v \in RefreshVideoIds |-> <<"old">>]
    /\ worker_pc = [w \in Workers |-> IF w = "w1" THEN "start" ELSE "idle"]
    /\ worker_type = [w \in Workers |-> 0]
    /\ all_indexed_ids = [w \in Workers |-> <<>>]
    /\ last = NoRefresh
    /\ received = <<>>
    /\ IdleProgress
    /\ IdleManual

SpecPlaylists == InitPlaylists /\ [][NextRefresh]_vars

(***************************************************************************)
(* Properties of the outdated-detection pass.                              *)
(***************************************************************************)
Min(a, b) == IF a <= b THEN a ELSE b

\* The least integer not below a / b, for a >= 0 and b > 0.
CeilDiv(a, b) == (a + b - 1) \div b

\* d is the integer part of (hits \div days + 1) * 1.2, or 9999 when that is
\* 10000 or more.
IsQuota(d, hits, days) ==
    LET base == hits \div days + 1
    IN IF 12 * base >= 10 * 10000
       THEN d = 9999
       ELSE 10 * d <= 12 * base /\ 12 * base < 10 * (d + 1)

ActiveVideos == {i \in DOMAIN ta_video : ta_video[i].active}

OutdatedVideos ==
    {i \in ActiveVideos :
        ta_video[i].vid_last_refresh <= now - interval * DaySeconds}

\* The pass has handed the outdated videos to populate.
VideoPassDone == sched_type > 1

HasComments(index, id) ==
    id \in DOMAIN index /\ index[id].comment_comments # <<>>

\* C9: a stored comment set that is not empty is never replaced by an empty
\* one nor deleted without a replacement that is not empty, and a call whose
\* pull yields no comments leaves the stored comment documents as they were.
C9_StoredCommentsKept ==
    [][/\ \A id \in DOMAIN ta_comment :
             HasComments(ta_comment, id) => HasComments(ta_comment', id)
       /\ (comments_call' # "uploaded" \/ comments_format' = <<>>)
             => ta_comment' = ta_comment]_vars

\* A call that pulled no comments for a video whose stored comments are
\* not empty.
C9_Witness ==
    /\ comments_call = "kept"
    /\ comments_format = <<>>
    /\ \E id \in DOMAIN ta_comment : HasComments(ta_comment, id)

(***************************************************************************)
(* Properties of the refresh worker.                                       *)
(***************************************************************************)
\* A step of reindex_index that has refreshed an entity of the type.
RefreshStep(type, outcome) ==
    /\ queue' # queue
    /\ last'.type = type
    /\ last'.outcome = outcome

\* C6: the refresh of a video whose upstream lookup returns no metadata sets
\* active to false in the document, which stays in the index with its other
\* fields, and writes nothing else: subtitles, thumbnail and comments are as
\* before and deactivate is the only write of the refresh.
C6_UnresolvableVideoOnlyDeactivated ==
    [][RefreshStep("video", "unresolvable") =>
          /\ last'.id \in DOMAIN ta_video'
          /\ ta_video'[last'.id].active = FALSE
          /\ ta_video' = [ta_video EXCEPT ![last'.id] = With(@, "active", FALSE)]
          /\ thumbs' = thumbs
          /\ ta_comment' = ta_comment
          /\ last'.writes = <<"deactivate">>]_vars

C6_Witness ==
    /\ last.type = "video"
    /\ last.outcome = "unresolvable"
    /\ last.before.active
    /\ ~ta_video[last.id].active
    /\ "subtitles" \in DOMAIN ta_video[last.id]
    /\ HasComments(ta_comment, last.id)
    /\ comment_max

\* C7: no step of a refresh cycle removes a document of ta_video, ta_channel
\* or ta_playlist: an entity that is gone upstream is kept with its active
\* flag false.
C7_RefreshNeverDeletes ==
    [][/\ DOMAIN ta_video \subseteq DOMAIN ta_video'
       /\ DOMAIN ta_channel \subseteq DOMAIN ta_channel'
       /\ DOMAIN ta_playlist \subseteq DOMAIN ta_playlist'
       /\ RefreshStep("channel", "unresolvable") =>
             ~ta_channel'[last'.id].channel_active]_vars

C7_Witness ==
    /\ worker_pc["w1"] = "done"
    /\ \E v \in DOMAIN ta_video : ~ta_video[v].active
    /\ \E c \in DOMAIN ta_channel : ~ta_channel[c].channel_active
    /\ \E p \in DOMAIN ta_playlist : ~ta_playlist[p].playlist_active

\* The overwrite map of a channel document; a document without one has the
\* empty map.
Overwrites(doc) ==
    IF "channel_overwrites" \in DOMAIN doc THEN doc.channel_overwrites ELSE {}

\* C8: after the refresh of an entity that is resolvable upstream the sticky
\* fields of its document are those of before the refresh, whatever was
\* pulled (video: player, date_downloaded, channel; channel: subscription
\* flag and overwrite map; playlist: subscription flag), and title, duration
\* and thumbnail are the pulled ones.
C8_StickyFieldsKept ==
    last.outcome = "refreshed" =>
        CASE last.type = "video" ->
                LET doc == ta_video[last.id]
                IN /\ doc.player = last.before.player
                   /\ doc.date_downloaded = last.before.date_downloaded
                   /\ doc.channel = last.before.channel
                   /\ doc.title = PulledVideo(last.id).title
                   /\ doc.duration = PulledVideo(last.id).duration
                   /\ doc.vid_thumb_url = PulledVideo(last.id).vid_thumb_url
          [] last.type = "channel" ->
                LET doc == ta_channel[last.id]
                IN /\ doc.channel_subscribed = last.before.channel_subscribed
                   /\ Overwrites(doc) = Overwrites(last.before)
                   /\ doc.channel_name = PulledChannel(last.id).channel_name
          [] last.type = "playlist" ->
                LET doc == ta_playlist[last.id]
                IN /\ doc.playlist_subscribed = last.before.playlist_subscribed
                   /\ doc.playlist_name = "new"

\* C10: with a cookie configured whose validation fails, no step of
\* reindex_all takes an id off a queue, refreshes an entity or records
\* last_reindex.
C10_InvalidCookieAborts ==
    [][(cookie_import /\ ~cookie_valid) =>
          /\ queue' = queue
          /\ storeVars' = storeVars
          /\ last' = last
          /\ last_reindex' = last_reindex]_vars

(***************************************************************************)
(* Properties of get_progress.                                             *)
(***************************************************************************)
\* The step of get_progress that returns the answer to a query with a type
\* and an id.
PresenceAnswered ==
    /\ progress_pc = "get_state"
    /\ progress_pc' = "returned"
    /\ request_type \in KnownTypes
    /\ request_id # 0

\* C11: the state a query with a type and an id returns is true exactly
\* when the id is in the queue of the type at the step that answers it,
\* whatever the queue held when the call began.
C11_PresenceIsLive ==
    [][PresenceAnswered =>
          LET q == queue[REINDEX_CONFIG(request_type).queue_name]
          IN progress'.state <=> \E i \in 1..Len(q) : q[i] = request_id]_vars

C11_Witness ==
    /\ progress_pc = "returned"
    /\ request_id # 0
    /\ request_type \in KnownTypes
    /\ progress.state = FALSE
    /\ progress.total_queued > 0
    /\ \E i \in 1..Len(received) :
          received[i].type = request_type /\ received[i].id = request_id

(***************************************************************************)
(* Properties of the producers of the refresh queues.                      *)
(***************************************************************************)
\* C12: whatever add_outdated passes and extract_data calls have run, with
\* or without extract_videos, no refresh queue holds an id twice.
C12_QueuesHoldIdsOnce ==
    \A n \in QueueNames : NoDuplicates(queue[n])

\* An id was in the video queue, a pass and a call with extract_videos have
\* handed it to the queue again, and the pass is done and the call returned.
C12_Witness ==
    /\ sched_step = "done"
    /\ manual_pc = "returned"
    /\ extract_videos
    /\ \E i \in 1..Len(manual_data) :
          /\ manual_data[i].key = "channel"
          /\ \E v \in Range(populated["video"]) :
                InList(v, _get_channel_videos(manual_data[i].values[1]))
    /\ Len(queue["reindex:ta_video"]) = NumVideos

\* The map of the call names a type that REINDEX_CONFIG has not.
HasUnknownType ==
    \E i \in 1..Len(manual_data) : manual_data[i].key \notin KnownTypes

\* C16: no step of an extract_data call whose map names an unknown type
\* puts an id on a queue, the ids of the valid types before the unknown
\* one included, and the call raises.
C16_UnknownTypeEnqueuesNothing ==
    [][(/\ HasUnknownType
        /\ manual_pc = "running"
        /\ <<manual_pos, manual_pc>>' # <<manual_pos, manual_pc>>) =>
          /\ \A n \in QueueNames : queue'[n] = queue[n]
          /\ manual_pc' \in {"running", "raised"}]_vars

(***************************************************************************)
(* Properties of workers that drain the same queues.                       *)
(***************************************************************************)
\* The ids of a type that have been handed to workers, then those queued.
HandedAndQueued(type) ==
    LET of_type == SelectSeq(received, LAMBDA r : r.type = type)
    IN [i \in 1..Len(of_type) |-> of_type[i].id]
          \o queue[REINDEX_CONFIG(type).queue_name]

\* C13: an id of a queue is handed to one worker only, and an id leaves a
\* queue only by being handed to the worker whose get_next() took it.
C13_OneWorkerPerEntry ==
    /\ [](\A type \in KnownTypes : NoDuplicates(HandedAndQueued(type)))
    /\ [][queue' # queue =>
             \E w \in {v \in Workers : worker_pc[v] = "reindex_index"} :
                /\ queue[WorkerQueue(w)] # <<>>
                /\ queue' = [queue EXCEPT ![WorkerQueue(w)] = Tail(@)]
                /\ received' = Append(received,
                                      [worker |-> w,
                                       type |-> Types[worker_type[w]],
                                       id |-> Head(queue[WorkerQueue(w)])])
                /\ last'.id = Head(queue[WorkerQueue(w)])]_vars

\* Both workers have ended their cycle, each was handed a video, and the
\* four ids queued at the start have been handed out.
C13_Witness ==
    /\ \A w \in Workers : worker_pc[w] = "done"
    /\ \A n \in QueueNames : queue[n] = <<>>
    /\ \A w \in Workers : \E i \in 1..Len(received) :
          received[i].worker = w /\ received[i].type = "video"
    /\ Len(received) = 4

(***************************************************************************)
(* Properties of the drain loop of one worker.                             *)
(***************************************************************************)
\* The worker is inside reindex_all or has set last_reindex.
InCycle(w) ==
    worker_pc[w] \in {"has_item", "reindex_index", "set_message", "done"}

\* C15: a refresh that has raised, after the second call for a video whose
\* media file is missing as well, leaves the worker in its cycle: it goes
\* on with the ids still queued and sets last_reindex.
C15_FailureIsolated ==
    last.outcome = "raised" => \A w \in Workers : worker_pc[w] # "idle" => InCycle(w)

\* The place of a type in REINDEX_CONFIG.values().
TypeIndex(type) == CHOOSE i \in 1..Len(Types) : Types[i] = type

\* The pops of a cycle are in the order of the types, a step pops one id at
\* most, and the worker goes from a type to the next one only.
PopsInTypeOrder ==
    /\ [](\A i, j \in 1..Len(received) :
             i < j => TypeIndex(received[i].type) <= TypeIndex(received[j].type))
    /\ [][/\ Len(received') \in {Len(received), Len(received) + 1}
           /\ \A w \in Workers : worker_type'[w] # worker_type[w] =>
                 worker_type'[w] = worker_type[w] + 1]_vars

\* C19, as the claim states it: the worker leaves a type only at a
\* get_next() that found the queue of the type empty.
C19_Original ==
    /\ PopsInTypeOrder
    /\ [][\A w \in Workers :
             (worker_type[w] >= 1 /\ worker_type'[w] # worker_type[w]) =>
                /\ worker_pc[w] = "reindex_index"
                /\ queue[WorkerQueue(w)] = <<>>]_vars

\* C19, amended: the worker leaves a type only at a step that found the
\* queue of the type empty, has_item() or get_next(); the last type is
\* left for set_message in the same way.
C19_TypeByType ==
    /\ PopsInTypeOrder
    /\ [][\A w \in Workers :
             \/ (worker_type[w] >= 1 /\ worker_type'[w] # worker_type[w])
             \/ (worker_pc[w] # "set_message" /\ worker_pc'[w] = "set_message")
             => /\ worker_pc[w] \in {"has_item", "reindex_index"}
                /\ queue[WorkerQueue(w)] = <<>>]_vars

\* A cycle that left the video queue at get_next() after a pop, the
\* channel queue at has_item() and popped a playlist then.
C19_Witness ==
    /\ worker_pc["w1"] = "done"
    /\ Len(received) = 2
    /\ received[1].type = "video"
    /\ received[2].type = "playlist"

\* The cycle of the worker has ended: it returned or a call raised.
Ended(w) == worker_pc[w] \in {"done", "aborted", "raised"}

\* C20: the cycle ends, and when it has set last_reindex the three queues
\* are empty and the worker has returned.
C20_CycleTerminates ==
    /\ <>Ended("w1")
    /\ [](last_reindex # <<>> =>
             /\ \A n \in QueueNames : queue[n] = <<>>
             /\ worker_pc["w1"] = "done")

C20_Witness ==
    /\ worker_pc["w1"] = "done"
    /\ last_reindex = <<now>>
    /\ \A n \in QueueNames : queue[n] = <<>>
    /\ Len(received) = 4
    /\ last.outcome # "raised"

(***************************************************************************)
(* The active field of each type in the outdated-detection pass.           *)
(***************************************************************************)
\* The documents of a type that are active under the active_key of the type.
ActiveOf(type) ==
    LET index == Index(REINDEX_CONFIG(type).index_name)
    IN {i \in DOMAIN index : Match(index[i], REINDEX_CONFIG(type).active_key, TRUE)}

\* Those of them that were refreshed interval days ago or longer.
OutdatedOf(type) ==
    LET index == Index(REINDEX_CONFIG(type).index_name)
        refresh_key == REINDEX_CONFIG(type).refresh_key
    IN {i \in ActiveOf(type) :
           /\ refresh_key \in DOMAIN index[i]
           /\ index[i][refresh_key] <= now - interval * DaySeconds}

\* C18: for each type the pass hands to populate, and so to the queue of
\* the type, ids of documents that are outdated and active under the
\* active_key of the type, as many as there are up to the quota of the
\* type: an active outdated channel or playlist is enqueued.
C18_OwnActiveField ==
    sched_step = "done" =>
        \A type \in KnownTypes :
            LET daily == _get_daily_should(Cardinality(ActiveOf(type)), interval)
            IN /\ Range(populated[type]) \subseteq OutdatedOf(type)
               /\ Len(populated[type])
                     = Min(Cardinality(OutdatedOf(type)), daily)
               /\ Range(populated[type])
                     \subseteq Range(queue[REINDEX_CONFIG(type).queue_name])

(***************************************************************************)
(* Properties of the wrapper of the video refresh.                         *)
(***************************************************************************)
\* C21: when the refresh of a video fails because the media file is not
\* where the record says, ChannelUrlFixer.run is executed exactly once and
\* the refresh is attempted exactly once more; no popped id is attempted
\* more than twice.
C21_RepairedOnceRetriedOnce ==
    last.type = "video" =>
        /\ Len(last.calls) > 1 =>
              last.calls = <<"_reindex_single_video_call",
                             "ChannelUrlFixer.run",
                             "_reindex_single_video_call">>
        /\ Cardinality({i \in DOMAIN last.calls :
                           last.calls[i] = "_reindex_single_video_call"}) <= 2

(***************************************************************************)
(* Properties of the refresh of a channel that is gone upstream.           *)
(***************************************************************************)
\* C22: the refresh of a channel whose upstream lookup returns nothing sets
\* channel_active to false in its document and changes nothing else of it
\* (subscription flag and overwrite map are kept), and in the same call
\* writes the inactive channel document into the channel of every video
\* of that channel, whose other fields stay as they are.
C22_UnresolvableChannelFansOut ==
    [][RefreshStep("channel", "unresolvable") =>
          LET id == last'.id
          IN /\ ta_channel' =
                    [ta_channel EXCEPT ![id] = With(@, "channel_active", FALSE)]
             /\ ta_channel'[id].channel_subscribed =
                    ta_channel[id].channel_subscribed
             /\ Overwrites(ta_channel'[id]) = Overwrites(ta_channel[id])
             /\ \A v \in DOMAIN ta_video :
                    IF ta_video[v].channel.channel_id = id
                    THEN /\ ~ta_video'[v].channel.channel_active
                         /\ ta_video'[v] =
                               With(ta_video[v], "channel", ta_channel'[id])
                    ELSE ta_video'[v] = ta_video[v]
             /\ last'.writes = <<"deactivate", "sync_to_videos">>]_vars

\* A subscribed channel with an overwrite map has been found gone upstream:
\* it is inactive with flag and map kept, and its videos say so.
C22_Witness ==
    /\ last.type = "channel"
    /\ last.outcome = "unresolvable"
    /\ last.before.channel_active
    /\ last.before.channel_subscribed
    /\ Overwrites(last.before) = {"mine"}
    /\ ~ta_channel[last.id].channel_active
    /\ ta_channel[last.id].channel_subscribed
    /\ Overwrites(ta_channel[last.id]) = {"mine"}
    /\ \A v \in DOMAIN ta_video :
          /\ ta_video[v].channel.channel_id = last.id
          /\ ~ta_video[v].channel.channel_active

(***************************************************************************)
(* Properties of the cascade of a manual request.                          *)
(***************************************************************************)
\* The videos the index attributes to a channel or to a playlist.
Attributed(key, id) ==
    {v \in DOMAIN ta_video :
        IF key = "channel" THEN ta_video[v].channel.channel_id = id
        ELSE /\ "playlist" \in DOMAIN ta_video[v]
             /\ id \in Range(ta_video[v].playlist)}

\* A turn of the loop of extract_data has handled a channel or playlist item.
CollectionItemDone ==
    /\ manual_pc = "running"
    /\ manual_pos' = manual_pos + 1
    /\ manual_data[manual_pos + 1].key \in {"channel", "playlist"}

\* C23: a channel or playlist item of a manual request puts each of its ids
\* on the queue of its own type; with extract_videos set the video queue
\* gains exactly the videos the index attributes to those ids, and without
\* it the video queue is left as it is.  The queue of the other type is
\* left as it is in both cases and nothing leaves a queue.
C23_CascadeAddsAttributedVideos ==
    [][CollectionItemDone =>
          LET item == manual_data[manual_pos + 1]
              own == REINDEX_CONFIG(item.key).queue_name
              videos == "reindex:ta_video"
              members == UNION {Attributed(item.key, id) : id \in Range(item.values)}
          IN /\ Range(queue'[own]) = Range(queue[own]) \cup Range(item.values)
             /\ IF extract_videos
                THEN Range(queue'[videos]) = Range(queue[videos]) \cup members
                ELSE queue'[videos] = queue[videos]
             /\ \A n \in QueueNames \ {own, videos} : queue'[n] = queue[n]]_vars

\* A call with extract_videos for playlist 1 has returned: the playlist is
\* queued, and the video queue holds the videos of the playlist and not the
\* video that is in no playlist.
C23_Witness ==
    /\ manual_pc = "returned"
    /\ extract_videos
    /\ manual_data = <<Item("video", <<>>), Item("playlist", <<1>>)>>
    /\ InList(1, queue["reindex:ta_playlist"])
    /\ Attributed("playlist", 1) # {}
    /\ Range(queue["reindex:ta_video"]) = Attributed("playlist", 1)
    /\ Range(queue["reindex:ta_video"]) # DOMAIN ta_video

(***************************************************************************)
(* Properties of the validation and the messages of add_to_pending.        *)
(***************************************************************************)
\* The extractor gave nothing, the video of another id, or a broadcast that
\* is upcoming or live.
RejectedBy(vid, youtube_id) ==
    \/ ~vid.ok
    \/ vid.ok /\ vid.id # youtube_id
    \/ vid.ok /\ vid.live_status \in {"is_upcoming", "is_live"}

\* The place of an id in a list that holds it once.
PlaceOf(list, x) == CHOOSE i \in DOMAIN list : list[i] = x

\* The pass p goes through the loop of add_to_pending.
AddsToPending(p) == pc[p] = "parsed" /\ pc'[p] # "parsed"

\* C24: add_to_pending makes no create action, caches no thumbnail and sets
\* no message for an id of missing_videos whose extraction gave nothing,
\* another id, or an upcoming or live broadcast; for every other id of the
\* list it does all three, whatever was rejected before it, and when the
\* pass is done every such id has a document in ta_download and no
\* rejected id has one made by the pass.
C24_RejectedIdSkippedAlone ==
    /\ [][\A p \in Passes : AddsToPending(p) =>
             \A id \in Range(missing_videos[p]) :
                LET rejected == RejectedBy(extracted'[p][id], id)
                    created == \E i \in DOMAIN bulk_list'[p] :
                                  /\ bulk_list'[p][i].action._id = id
                                  /\ bulk_list'[p][i].action.op = "create"
                    noticed == \E i \in DOMAIN messages'[p] :
                                  messages'[p][i].progress[1]
                                      = PlaceOf(missing_videos[p], id)
                IN IF rejected
                   THEN /\ ~created
                        /\ ~noticed
                        /\ id \in DOMAIN thumbs' => /\ id \in DOMAIN thumbs
                                                    /\ thumbs'[id] = thumbs[id]
                   ELSE /\ created
                        /\ noticed
                        /\ id \in DOMAIN thumbs'
                        /\ thumbs'[id] = extracted'[p][id].thumbnail]_vars
    /\ [](\A p \in Passes : pc[p] = "done" =>
             \A id \in Range(missing_videos[p]) :
                IF RejectedBy(extracted[p][id], id)
                THEN id \notin CreatedBy(p)
                ELSE \E d \in ta_download : d.youtube_id = id)

\* A pass is done of which an id was rejected for which the extractor gave
\* the video of another id, and an id that follows it in missing_videos,
\* and one that precedes it, were committed by the pass.
C24_Witness ==
    \E p \in Passes :
        /\ pc[p] = "done"
        /\ \E i, j, k \in DOMAIN missing_videos[p] :
              /\ i < j /\ j < k
              /\ extracted[p][missing_videos[p][j]].ok
              /\ extracted[p][missing_videos[p][j]].id # missing_videos[p][j]
              /\ missing_videos[p][i] \in CreatedBy(p)
              /\ missing_videos[p][k] \in CreatedBy(p)
              /\ missing_videos[p][j] \notin DOMAIN thumbs
              /\ Len(messages[p]) = 2

\* The message may outlive the pass: set with the expire of the last id.
Durable(message) == message.expire = "4"

\* C25: of a pass that has accepted an id, the last message set is the
\* durable one and every earlier one is not, also when the last ids of
\* missing_videos were rejected; the counter of the k-th message is k over
\* the length of missing_videos.
C25_LastMessageDurable ==
    \A p \in Passes : pc[p] \in {"posting", "done"} /\ messages[p] # <<>> =>
        /\ Durable(messages[p][Len(messages[p])])
        /\ \A k \in 1..(Len(messages[p]) - 1) : ~Durable(messages[p][k])
        /\ \A k \in DOMAIN messages[p] :
              messages[p][k].progress = <<k, Len(missing_videos[p])>>

(***************************************************************************)
(* Properties of the playlist and subtitles fields across a refresh.       *)
(***************************************************************************)
\* The document has the field with the value the other has, or both lack it.
SameField(doc, other, field) ==
    /\ field \in DOMAIN doc <=> field \in DOMAIN other
    /\ field \in DOMAIN doc => doc[field] = other[field]

\* C26: after the refresh of a video that is resolvable upstream, playlist
\* and subtitles of its document are as they were read before the pull,
\* an empty or absent playlist included, whatever was pulled.
C26_PlaylistAndSubtitlesKept ==
    (last.type = "video" /\ last.outcome = "refreshed") =>
        /\ SameField(ta_video[last.id], last.before, "playlist")
        /\ SameField(ta_video[last.id], last.before, "subtitles")

(***************************************************************************)
(* Properties of a worker that dies in a refresh.                          *)
(***************************************************************************)
\* C27: when a worker dies after it has popped the id of a video and read
\* its document and before upload_to_es, the document, the subtitles, the
\* thumbnail and the comments of the video are as before the refresh
\* started.
C27_CrashLeavesEntityUnchanged ==
    [][RefreshStep("video", "crashed") =>
          /\ ta_video' = ta_video
          /\ ta_subtitle' = ta_subtitle
          /\ thumbs' = thumbs
          /\ ta_comment' = ta_comment]_vars

(***************************************************************************)
(* Properties of the cached list of indexed ids.                           *)
(***************************************************************************)
\* The worker has refreshed a playlist earlier in its cycle.
RefreshedPlaylist(w) ==
    \E i \in DOMAIN received :
        received[i].worker = w /\ received[i].type = "playlist"

\* C28: in a cycle the ids of ta_video are read for the first playlist the
\* worker refreshes and for no later one, which uses the list cached then,
\* whatever its length.
C28_IndexedIdsFetchedOnce ==
    [][\A w \in Workers :
          (/\ worker_pc[w] = "reindex_index"
           /\ queue' # queue
           /\ last'.type = "playlist") =>
             IF RefreshedPlaylist(w)
             THEN /\ ~last'.fetched
                  /\ all_indexed_ids'[w] = all_indexed_ids[w]
             ELSE last'.fetched]_vars

(***************************************************************************)
(* Properties of the cookie check with a cookie that is valid.             *)
(***************************************************************************)
\* C29: with no cookie configured, or with one whose validation succeeds,
\* reindex_all does not take the early return of the cookie check: it goes
\* on to the queues.
C29_ValidCookieRuns ==
    (~cookie_import \/ cookie_valid) =>
        \A w \in Workers : worker_pc[w] # "aborted"

(***************************************************************************)
(* Properties of a progress query with an id and no type.                  *)
(***************************************************************************)
\* The query running has an id and no type.
IdWithoutType == request_type = "" /\ request_id # 0

\* C30: a query with an id and no type reads the three refresh queues, one
\* after the other, and reports the sum of their lengths as total_queued
\* and "all" as type; it looks the id up under the name "all", which is
\* none of the three queues, and so reports state false for every id, one
\* that is in a refresh queue included.
C30_IdWithoutTypeNeverFound ==
    /\ "all" \notin QueueNames
    /\ [][(IdWithoutType /\ progress_pc = "get_total"
                         /\ progress_pc' # "raised"
                         /\ progress' # progress) =>
             LET n == progress.read + 1
             IN /\ n \in DOMAIN Types
                /\ total' = total
                      + Len(queue[REINDEX_CONFIG(Types[n]).queue_name])
                /\ progress_pc' = "get_state" <=> n = Len(Types)]_vars
    /\ [][(IdWithoutType /\ progress_pc = "get_state"
                         /\ progress_pc' = "returned") =>
             /\ progress'.total_queued = total
             /\ progress'.type = "all"
             /\ progress'.id = request_id
             /\ progress'.state = FALSE]_vars

\* A query for id 1 without a type has returned state false and a total
\* above zero while id 1 is in the video queue and in the channel queue.
C30_Witness ==
    /\ progress_pc = "returned"
    /\ request_type = ""
    /\ request_id = 1
    /\ progress.state = FALSE
    /\ progress.type = "all"
    /\ progress.total_queued
          = Len(queue["reindex:ta_video"]) + Len(queue["reindex:ta_channel"])
              + Len(queue["reindex:ta_playlist"])
    /\ InList(1, queue["reindex:ta_video"])
    /\ InList(1, queue["reindex:ta_channel"])
====
